---- MODULE Spec2Model ----
(***************************************************************************)
(* visualsynth: the audio callback of run_audio_loop and the keyboard /    *)
(* redraw handlers of run_event_loop (src/main.rs), with the voice pool    *)
(* (NoteState), the Oscillator builder and Scale::calculate_frequency.     *)
(*                                                                         *)
(* Representation of the f32 quantities:                                   *)
(*   - a frequency 440 * 2^(s/12) Hz is the integer s (semitones above the *)
(*     440 Hz reference); multiplying by 2^k adds 12*k;                    *)
(*   - a time is a count of samples of the global sample clock;            *)
(*   - a phase in [0,1) is an integer number of 1/44100 cycles, so that    *)
(*     the phase increment frequency/sample_rate of a generator built with *)
(*     the builder's sample rate of 44100 is the frequency in whole Hz;    *)
(*   - Option<T>: None is {} and Some(x) is {x}.                           *)
(***************************************************************************)
EXTENDS Integers, Sequences, FiniteSets, TLC

\* ---------------------------------------------------------------- bounds
\* note names a configuration maps keys to ("A4" is not in NOTE_SEQUENCE)
Notes == {"A", "A4"}
\* data.len() of one audio callback
BlockLen == 2
\* sample_rate / 60 of the device
DownsampleFactor == 3
\* the global sample clock stops the model at this many samples
MaxSamples == 4
\* the waveforms the configuration's change_waveform map has keys for
WaveformKeys == {"Sine"}
\* the root notes a ChangeKey event can name
RootKeys == {"C", "G"}
\* octaves a voice can be retuned away from its note by change_octave
MaxRetune == 1
\* rates and depths (1/1000) a TremoloEffect is built with
TremoloRates == {2000, 5000}
TremoloDepths == {0, 500}
\* the sample rate a TremoloEffect is built with
LibSampleRate == 10
\* samples (1/1000) given to process
Samples == {0 - 1000, 0, 600, 1000}
\* values (1/1000) given to set_rate and set_depth
SetValues == {0, 250, 3000}
\* process is called while the LFO table index is below this
MaxTableIndex == 2
\* the longest attack, decay or release of an envelope, in ticks
MaxStage == 3
\* sustain levels (1/1000) of an envelope
SustainLevels == {0, 300, 700, 1000}

\* ------------------------------------------------------ program constants
NOTE_SEQUENCE ==
    << "C", "C_SHARP", "D", "D_SHARP", "E", "F", "F_SHARP", "G", "G_SHARP",
       "A", "A_SHARP", "B", "C_HIGH" >>
a4_index == 12
OCTAVE_MIN == 0 - 2
OCTAVE_MAX == 2
BUILDER_SAMPLE_RATE == 44100
BUILDER_NOTE == "A4"
GRID_ROWS == 256
GRID_COLS == 16
TREMOLO_TABLE_SIZE == 1024
SCALE_FACTOR == 1000
\* what a float infinity converts to (usize::MAX, here the largest integer)
USIZE_MAX == 2 ^ 31 - 1
\* 1.0 in the fixed point of the envelope levels
UNITY == 1000

None == {}
Some(x) == {x}
Unwrap(opt) == CHOOSE x \in opt : TRUE

Min(a, b) == IF a < b THEN a ELSE b
Max(a, b) == IF a > b THEN a ELSE b

\* ------------------------------------------------------------------ state
VARIABLES
    playing_notes,      \* NoteState.playing_notes: HashMap<String, bool>
    oscillators,        \* NoteState.oscillators: Vec<Oscillator>
    waveform_type,      \* Arc<RwLock<OscillatorWaveform>>
    octave_shift,       \* Arc<RwLock<i32>>
    tremolo_enabled,    \* TremoloEffect.enabled
    global_time,        \* AtomicU64 sample clock
    accumulated_len,    \* accumulated_samples.len()
    snapshot,           \* cells of downsampled_audio_data filled by the last publish
    audio_data,         \* the event loop's copy of the snapshot
    note_state_lock,    \* owner of the Mutex<NoteState>
    snapshot_lock,      \* owner of the Mutex<DownsampledAudioData>
    audio_pc,           \* position of the audio callback
    ctl_pc,             \* position of the event loop
    ctl_event,          \* the key event the handler has applied, until it returns
    on_repeated,        \* history: notes whose note-on was handled again while
                        \* flagged playing, with no note-off since
    tremolo_effect,     \* TremoloEffect: the rate and depth atomics, the Tremolo
    scale,              \* Scale: the root note and the intervals
    toggle_parity,      \* history: the number of toggle() calls so far, modulo 2
    enabled_built,      \* history: the enabled flag the builder was given
    call,               \* history: the last library call, argument and result
    api_pc,             \* position of a caller inside TremoloEffect::toggle
    envelope,           \* an AmplitudeEnvelope
    audio_thread,       \* the audio thread: starting, streaming or failed
    exit_status,        \* Option: the status the process exited with
    render_i,           \* index of the next voice of the per-voice loop
    block_view,         \* history: the control values the block in progress read
    generator,          \* Option: a WaveformGenerator
    voice,              \* Option: an Oscillator outside the pool
    audio_buffer,       \* Option: an AudioBuffer
    accumulated_samples, \* the contents of the callback's accumulated_samples
    samples_grid,       \* DownsampledAudioData.samples, the cells that are not 0.0
    render_time,        \* history, Option: current_time of the last generate_wave
                        \* call of the per-voice loop, in samples
    locks,              \* holder of the octave_shift, scale, waveform_type,
                        \* tremolo_effect and tremolo locks: "free", "audio", "ctl"
    create_loop,        \* the creation loop of the block: the playing_notes
                        \* entries not visited yet, the note being built
    key_events          \* history: the KeyboardInput events counted so far

vars == << playing_notes, oscillators, waveform_type, octave_shift,
           tremolo_enabled, global_time, accumulated_len, snapshot, audio_data,
           note_state_lock, snapshot_lock, audio_pc, ctl_pc, ctl_event,
           on_repeated, tremolo_effect, scale, toggle_parity,
           enabled_built, call, api_pc, envelope, audio_thread, exit_status,
           render_i, block_view, generator, voice, audio_buffer,
           accumulated_samples, samples_grid, render_time,
                    locks, create_loop, key_events >>

\* ------------------------------------------------------- Scale (keys.rs)
\* str::to_uppercase on the note names of the model
to_uppercase(s) ==
    CASE s = "a" -> "A"
      [] s = "c" -> "C"
      [] s = "a4" -> "A4"
      [] OTHER -> s

\* NOTE_SEQUENCE.iter().position(|&n| n == name): 0-based, None if absent
position(name) ==
    LET hits == {i \in 1..Len(NOTE_SEQUENCE) : NOTE_SEQUENCE[i] = name}
    IN  IF hits = {} THEN None
        ELSE Some((CHOOSE i \in hits : \A j \in hits : i <= j) - 1)

\* Scale::calculate_frequency: Some(semitones above 440 Hz) or None
calculate_frequency(note) ==
    LET note_index == position(to_uppercase(note))
    IN  IF note_index # None
        THEN Some(Unwrap(note_index) - a4_index)
        ELSE None

\* frequency * 2.0f32.powf(shift)
ShiftOctaves(frequency, shift) == frequency + 12 * shift

\* 440 * 2^(r/12) for r in 0..11, to the nearest Hz
BaseHz == << 440, 466, 494, 523, 554, 587, 622, 659, 698, 740, 784, 831 >>

\* the frequency s in whole Hz (octaves 55 Hz .. 28 kHz)
Hz(s) == (BaseHz[(s % 12) + 1] * 2 ^ ((s \div 12) + 3)) \div 8

\* ------------------------------------------- WaveformGenerator / Oscillator
\* WaveformGenerator::new: phase 0, phase_inc = frequency / sample_rate
WaveformGeneratorNew(waveform, frequency) ==
    [wavetable |-> waveform, phase |-> 0, frequency |-> frequency]

\* update_phase applied once per generated sample, num_samples times
AdvancePhase(gen, num_samples) ==
    [gen EXCEPT !.phase =
        (gen.phase + num_samples * Hz(gen.frequency)) % BUILDER_SAMPLE_RATE]

\* Oscillator::builder().frequency(f).waveform(w)....build(): the builder has
\* no setter for the note, every built oscillator carries the default note
BuildOscillator(frequency, waveform) ==
    [waveform_generator |-> WaveformGeneratorNew(waveform, frequency),
     note |-> BUILDER_NOTE,
     start_time |-> None]

start_note(osc, t) == [osc EXCEPT !.start_time = Some(t)]

get_waveform(osc) == osc.waveform_generator.wavetable

set_waveform(osc, waveform) ==
    [osc EXCEPT !.waveform_generator =
        WaveformGeneratorNew(waveform, osc.waveform_generator.frequency)]

\* generate_wave: draws num_samples samples, start_time is only read
generate_wave(osc, num_samples) ==
    [osc EXCEPT !.waveform_generator = AdvancePhase(@, num_samples)]

\* --------------------------------------------------- NoteState (note_state.rs)
Insert(map, key, value) ==
    [n \in (DOMAIN map) \cup {key} |-> IF n = key THEN value ELSE map[n]]

\* the note is in the map and flagged playing
IsPlaying(map, note) == note \in DOMAIN map /\ map[note]

note_on(map, note) == Insert(map, note, TRUE)
note_off(map, note) == Insert(map, note, FALSE)

\* the octave arithmetic with the clamp left out
ChangeOctaveShift_Unclamped(shift, direction) ==
    shift + (IF direction = "up" THEN 1 ELSE 0 - 1)

\* the key event handler's octave arithmetic
ChangeOctaveShift(shift, direction) ==
    LET moved == shift + (IF direction = "up" THEN 1 ELSE 0 - 1)
    IN  Max(OCTAVE_MIN, Min(OCTAVE_MAX, moved))

\* for oscillator in oscillators: set_frequency(get_frequency() * 2^(+-1))
set_frequency(osc, frequency) ==
    [osc EXCEPT !.waveform_generator.frequency = frequency]

change_octave(oscs, direction) ==
    LET shift == CASE direction = "up" -> 1
                   [] direction = "down" -> 0 - 1
                   [] OTHER -> 0
    IN  [k \in 1..Len(oscs) |->
            set_frequency(oscs[k],
                ShiftOctaves(oscs[k].waveform_generator.frequency, shift))]

\* Scale::change_root_note
change_root_note_ResetIntervals(s, new_root) ==
    [root_note |-> new_root, intervals |-> << >>]

change_root_note(s, new_root) == [s EXCEPT !.root_note = new_root]

\* ------------------------------------------------- Tremolo (tremolo.rs)
\* rates, depths, amplitudes and samples are in 1/1000 (1.0 is SCALE_FACTOR)
\* sin(2*pi*i/1024) in 1/1000 by Bhaskara's formula (absolute error < 0.002)
SinMilli(i) ==
    LET half == TREMOLO_TABLE_SIZE \div 2
        j == i % half
        u == j * (half - j)
        v == (16 * SCALE_FACTOR * u) \div (5 * half * half - 4 * u)
    IN  IF i % TREMOLO_TABLE_SIZE < half THEN v ELSE 0 - v

\* tremolo_table[i] = 1.0 - depth * sin(phase * TWO_PI)
tremolo_table(depth, i) == SCALE_FACTOR - (depth * SinMilli(i)) \div SCALE_FACTOR

\* Tremolo::new: the cursor starts at 0; (sample_rate / rate) as usize
TremoloNew(rate, depth, sample_rate) ==
    [rate |-> rate,
     depth |-> depth,
     table_index |-> 0,
     samples_per_tremolo_cycle |->
        IF rate = 0 THEN USIZE_MAX ELSE (sample_rate * SCALE_FACTOR) \div rate,
     sample_counter |-> 0]

\* a process that advances the table index one call late
Tremolo_process_Late(tremolo, sample, sample_rate) ==
    LET table_index == tremolo.table_index
        amplitude == tremolo_table(tremolo.depth, table_index)
        sample_counter == tremolo.sample_counter
    IN  [ret |-> (sample * amplitude) \div SCALE_FACTOR,
         tremolo |->
            IF sample_counter + 1 > tremolo.samples_per_tremolo_cycle
            THEN [tremolo EXCEPT
                    !.sample_counter = 0,
                    !.table_index = (table_index + 1) % TREMOLO_TABLE_SIZE]
            ELSE [tremolo EXCEPT !.sample_counter = sample_counter + 1]]

\* Tremolo::process: the result and the Tremolo after the call; the
\* _sample_rate argument is not used
Tremolo_process(tremolo, sample, sample_rate) ==
    LET table_index == tremolo.table_index
        amplitude == tremolo_table(tremolo.depth, table_index)
        sample_counter == tremolo.sample_counter
    IN  [ret |-> (sample * amplitude) \div SCALE_FACTOR,
         tremolo |->
            IF sample_counter + 1 >= tremolo.samples_per_tremolo_cycle
            THEN [tremolo EXCEPT
                    !.sample_counter = 0,
                    !.table_index = (table_index + 1) % TREMOLO_TABLE_SIZE]
            ELSE [tremolo EXCEPT !.sample_counter = sample_counter + 1]]

\* a reset that stores nothing
reset_Noop(tremolo) == tremolo

\* Tremolo::reset
reset(tremolo) == [tremolo EXCEPT !.table_index = 0, !.sample_counter = 0]

\* ------------------------------------------- TremoloEffect (tremolo.rs)
\* TremoloEffectBuilder::build; the enabled flag is the variable tremolo_enabled
TremoloEffectBuild(rate, depth, sample_rate) ==
    [tremolo |-> TremoloNew(rate, depth, sample_rate),
     rate |-> rate,
     depth |-> depth]

\* a process that does not test the enabled flag
TremoloEffect_process_Unconditional(effect, enabled, sample, sample_rate) ==
    LET r == Tremolo_process(effect.tremolo, sample, sample_rate)
    IN  [ret |-> r.ret, effect |-> [effect EXCEPT !.tremolo = r.tremolo]]

\* TremoloEffect::process: the result and the effect after the call
TremoloEffect_process(effect, enabled, sample, sample_rate) ==
    IF enabled
    THEN LET r == Tremolo_process(effect.tremolo, sample, sample_rate)
         IN  [ret |-> r.ret, effect |-> [effect EXCEPT !.tremolo = r.tremolo]]
    ELSE [ret |-> sample, effect |-> effect]

\* an atomic or in the place of the atomic xor
fetch_xor_AsOr(flag, operand) == flag \/ operand

\* AtomicBool::fetch_xor: the value stored (the value returned is flag)
fetch_xor(flag, operand) == flag # operand

\* the rest of toggle after the fetch_xor returned enabled
toggle_reset(effect, enabled) ==
    IF enabled THEN [effect EXCEPT !.tremolo = reset(@)] ELSE effect

\* (rate * SCALE_FACTOR as f32) as u32 of a rate of milli/1000
ToFixed(milli) == IF milli < 0 THEN 0 ELSE milli

set_rate(effect, rate) == [effect EXCEPT !.rate = ToFixed(rate)]

\* set_depth stores into self.rate
set_depth(effect, depth) == [effect EXCEPT !.rate = ToFixed(depth)]

\* load as f32 / SCALE_FACTOR as f32, in 1/1000
get_rate(effect) == effect.rate

get_depth(effect) == effect.depth

\* ------------------------------------ AmplitudeEnvelope (adsr_envelope.rs)
\* times are whole ticks, levels are in 1/1000 (1.0 is UNITY)
\* a decay stage that ramps from 1.0 upwards
amplitude_at_time_RisingDecay(env, time) ==
    LET attack == env.attack_time
        decay == env.decay_time
        release == env.release_time
        sustain == env.sustain_level
    IN  IF time < attack
        THEN (time * UNITY) \div attack
        ELSE IF time < attack + decay
        THEN UNITY + ((((time - attack) * UNITY) \div decay)
                        * (UNITY - sustain)) \div UNITY
        ELSE IF time < attack + decay + release
        THEN (sustain * (UNITY - ((time - attack - decay) * UNITY) \div release))
                \div UNITY
        ELSE 0

\* a release stage that ramps down from 1.0, not from the sustain level
amplitude_at_time_ReleaseFromPeak(env, time) ==
    LET attack == env.attack_time
        decay == env.decay_time
        release == env.release_time
        sustain == env.sustain_level
    IN  IF time < attack
        THEN (time * UNITY) \div attack
        ELSE IF time < attack + decay
        THEN UNITY - ((((time - attack) * UNITY) \div decay)
                        * (UNITY - sustain)) \div UNITY
        ELSE IF time < attack + decay + release
        THEN (UNITY * (UNITY - ((time - attack - decay) * UNITY) \div release))
                \div UNITY
        ELSE 0

\* AmplitudeEnvelope::amplitude_at_time
amplitude_at_time(env, time) ==
    LET attack == env.attack_time
        decay == env.decay_time
        release == env.release_time
        sustain == env.sustain_level
    IN  IF time < attack
        THEN (time * UNITY) \div attack
        ELSE IF time < attack + decay
        THEN UNITY - ((((time - attack) * UNITY) \div decay)
                        * (UNITY - sustain)) \div UNITY
        ELSE IF time < attack + decay + release
        THEN (sustain * (UNITY - ((time - attack - decay) * UNITY) \div release))
                \div UNITY
        ELSE 0

\* ------------------------------------------ audio callback (run_audio_loop)
\* the iteration orders of a HashMap with these keys
Orders(keys) ==
    {ord \in [1..Cardinality(keys) -> keys] :
        \A i, j \in 1..Cardinality(keys) : ord[i] = ord[j] => i = j}

\* oscillators.retain(|osc| playing_notes.any(|(n, p)| n == osc.note && p))
Retain(oscs, playing) ==
    SelectSeq(oscs, LAMBDA osc :
        \E n \in DOMAIN playing : n = osc.note /\ playing[n])

\* the creation loop over playing_notes, in iteration order ord
RECURSIVE CreateVoices(_, _, _, _, _, _, _)
CreateVoices(oscs, ord, i, playing, shift, waveform, current_time) ==
    IF i > Len(ord) THEN oscs
    ELSE LET note == ord[i]
             frequency == calculate_frequency(note)
             create == /\ playing[note]
                       /\ ~ \E k \in 1..Len(oscs) : oscs[k].note = note
                       /\ frequency # None
             next == IF create
                     THEN Append(oscs,
                            start_note(
                              BuildOscillator(
                                ShiftOctaves(Unwrap(frequency), shift), waveform),
                              current_time))
                     ELSE oscs
         IN  CreateVoices(next, ord, i + 1, playing, shift, waveform, current_time)

\* a per-voice loop without the hot swap
RenderVoice_NoSwap(osc, waveform, num_samples) == generate_wave(osc, num_samples)

\* the per-voice loop: hot-swap the waveform, then generate the block
RenderVoice(osc, waveform, num_samples) ==
    generate_wave(
        IF waveform # get_waveform(osc) THEN set_waveform(osc, waveform) ELSE osc,
        num_samples)

\* the voice pool after one block
BlockOscillators(oscs, ord, playing, shift, waveform, current_time, num_samples) ==
    LET pool == CreateVoices(Retain(oscs, playing), ord, 1, playing, shift,
                             waveform, current_time)
    IN  [k \in 1..Len(pool) |-> RenderVoice(pool[k], waveform, num_samples)]

\* cells of the grid a publish of n accumulated samples fills
PublishedCells(n) ==
    LET scalars == (n + DownsampleFactor - 1) \div DownsampleFactor
        num_frames == Min(scalars, GRID_ROWS)
    IN  Min(scalars, num_frames * GRID_COLS)

\* the event loop is not inside the keyboard handler
NoEvent == [state |-> "None", action |-> "None", arg |-> "None"]

\* no library call has been made
NoCall == [op |-> "None", arg |-> "None", ret |-> "None"]

\* the argument of a call without arguments, the result of one without result
Unit == [unit |-> TRUE]

\* TremoloEffect::builder().rate(5.0).depth(0.5)
MAIN_TREMOLO_RATE == 5000
MAIN_TREMOLO_DEPTH == 500
\* config.sample_rate, with downsample_factor = sample_rate / 60
DeviceSampleRate == 60 * DownsampleFactor

\* the envelope of the voices run_audio_loop builds: attack 0.5, decay 0.1,
\* sustain 0.7, release 0.5, in ticks of 0.1 s
MainEnvelope ==
    [attack_time |-> 5, decay_time |-> 1, sustain_level |-> 700,
     release_time |-> 5]

\* the Scale main creates: C major
MainScale == [root_note |-> "C", intervals |-> << 2, 2, 1, 2, 2, 2, 1 >>]

\* the cells of a grid that was only zeroed
ZeroGrid == [cell \in {} |-> 0]

\* NoteState::new()
InitNoteState ==
    /\ playing_notes = [n \in {} |-> TRUE]
    /\ oscillators = << >>
    /\ on_repeated = {}

\* the shared controls main creates
InitControls ==
    /\ waveform_type = "Silence"
    /\ octave_shift = 0
    /\ scale = MainScale

\* the TremoloEffect main builds
InitMainTremolo ==
    /\ tremolo_enabled = FALSE
    /\ tremolo_effect =
          TremoloEffectBuild(MAIN_TREMOLO_RATE, MAIN_TREMOLO_DEPTH, DeviceSampleRate)
    /\ enabled_built = FALSE
    /\ toggle_parity = 0

\* key events of one run of the event loop
MaxKeyEvents == 3

\* the RwLocks and Mutexes of main other than note_state and the snapshot
LockNames == {"octave_shift", "scale", "waveform_type", "tremolo_effect", "tremolo"}

\* the audio callback is not inside its creation loop
NoLoop == [todo |-> {}, note |-> None]

\* the clock, the accumulator, the snapshot, the mutexes, both threads idle
InitThreads ==
    /\ global_time = 0
    /\ accumulated_len = 0
    /\ snapshot = 0
    /\ audio_data = 0
    /\ note_state_lock = "free"
    /\ snapshot_lock = "free"
    /\ audio_pc = "idle"
    /\ ctl_pc = "idle"
    /\ ctl_event = NoEvent
    /\ render_i = 0
    /\ block_view = {}
    /\ api_pc = "idle"
    /\ accumulated_samples = << >>
    /\ samples_grid = ZeroGrid
    /\ render_time = None
    /\ locks = [l \in LockNames |-> "free"]
    /\ create_loop = NoLoop
    /\ key_events = 0

\* no library call was made: no generator, oscillator or buffer outside the
\* audio callback's
InitLibrary ==
    /\ call = NoCall
    /\ generator = None
    /\ voice = None
    /\ audio_buffer = None

\* the output stream is playing, the event loop runs
Init ==
    /\ InitNoteState
    /\ InitControls
    /\ InitMainTremolo
    /\ InitThreads
    /\ InitLibrary
    /\ envelope = MainEnvelope
    /\ audio_thread = "streaming"
    /\ exit_status = None

\* the host calls the data callback
AudioCallback ==
    /\ audio_pc = "idle"
    /\ audio_thread = "streaming"
    /\ global_time + BlockLen <= MaxSamples
    /\ audio_pc' = "lock_note_state"
    /\ UNCHANGED << playing_notes, oscillators, waveform_type, octave_shift,
                    tremolo_enabled, global_time, accumulated_len, snapshot,
                    audio_data, note_state_lock, snapshot_lock, ctl_pc, ctl_event,
                    on_repeated,
                    tremolo_effect, scale, toggle_parity, enabled_built, call,
                    api_pc, envelope, audio_thread, exit_status, render_i,
                    block_view,
                    generator, voice, audio_buffer, accumulated_samples, samples_grid, render_time,
                    locks, create_loop, key_events >>

\* note_state.lock() returns once the mutex is free
AudioLockNoteState ==
    /\ audio_pc = "lock_note_state"
    /\ note_state_lock = "free"
    /\ note_state_lock' = "audio"
    /\ audio_pc' = "synth"
    /\ UNCHANGED << playing_notes, oscillators, waveform_type, octave_shift,
                    tremolo_enabled, global_time, accumulated_len, snapshot,
                    audio_data, snapshot_lock, ctl_pc, ctl_event,
                    on_repeated,
                    tremolo_effect, scale, toggle_parity, enabled_built, call,
                    api_pc, envelope, audio_thread, exit_status, render_i,
                    block_view,
                    generator, voice, audio_buffer, accumulated_samples, samples_grid, render_time,
                    locks, create_loop, key_events >>

\* the block under the note_state guard: reconcile the pool, render the voices
AudioSynth ==
    /\ audio_pc = "synth"
    /\ \E ord \in Orders(DOMAIN playing_notes) :
          oscillators' = BlockOscillators(oscillators, ord, playing_notes,
                             octave_shift, waveform_type, global_time, BlockLen)
    /\ global_time' = global_time + BlockLen
    /\ note_state_lock' = "free"
    /\ audio_pc' = "decimate"
    /\ render_time' = IF Len(oscillators') > 0
                       THEN Some(global_time') ELSE render_time
    /\ UNCHANGED << playing_notes, waveform_type, octave_shift, tremolo_enabled,
                    accumulated_len, snapshot, audio_data, snapshot_lock,
                    ctl_pc, ctl_event,
                    on_repeated,
                    tremolo_effect, scale, toggle_parity, enabled_built, call,
                    api_pc, envelope, audio_thread, exit_status, render_i,
                    block_view,
                    generator, voice, audio_buffer, accumulated_samples, samples_grid,
                    locks, create_loop, key_events >>

\* accumulate the shaped block; decide whether to publish
AudioDecimate ==
    /\ audio_pc = "decimate"
    /\ accumulated_len' = accumulated_len + BlockLen
    /\ audio_pc' = IF accumulated_len' >= DownsampleFactor
                   THEN "lock_snapshot" ELSE "idle"
    /\ UNCHANGED << playing_notes, oscillators, waveform_type, octave_shift,
                    tremolo_enabled, global_time, snapshot, audio_data,
                    note_state_lock, snapshot_lock, ctl_pc, ctl_event,
                    on_repeated,
                    tremolo_effect, scale, toggle_parity, enabled_built, call,
                    api_pc, envelope, audio_thread, exit_status, render_i,
                    block_view,
                    generator, voice, audio_buffer, accumulated_samples, samples_grid, render_time,
                    locks, create_loop, key_events >>

\* downsampled_audio_data.lock() returns once the mutex is free
AudioLockSnapshot ==
    /\ audio_pc = "lock_snapshot"
    /\ snapshot_lock = "free"
    /\ snapshot_lock' = "audio"
    /\ audio_pc' = "publish"
    /\ UNCHANGED << playing_notes, oscillators, waveform_type, octave_shift,
                    tremolo_enabled, global_time, accumulated_len, snapshot,
                    audio_data, note_state_lock, ctl_pc, ctl_event,
                    on_repeated,
                    tremolo_effect, scale, toggle_parity, enabled_built, call,
                    api_pc, envelope, audio_thread, exit_status, render_i,
                    block_view,
                    generator, voice, audio_buffer, accumulated_samples, samples_grid, render_time,
                    locks, create_loop, key_events >>

\* zero the grid, write the decimated scalars, unlock, clear the accumulator
AudioPublish ==
    /\ audio_pc = "publish"
    /\ snapshot' = PublishedCells(accumulated_len)
    /\ accumulated_len' = 0
    /\ snapshot_lock' = "free"
    /\ audio_pc' = "idle"
    /\ UNCHANGED << playing_notes, oscillators, waveform_type, octave_shift,
                    tremolo_enabled, global_time, audio_data, note_state_lock,
                    ctl_pc, ctl_event,
                    on_repeated,
                    tremolo_effect, scale, toggle_parity, enabled_built, call,
                    api_pc, envelope, audio_thread, exit_status, render_i,
                    block_view,
                    generator, voice, audio_buffer, accumulated_samples, samples_grid, render_time,
                    locks, create_loop, key_events >>

\* ---------------------------------------------- event loop (run_event_loop)
\* what keycode_to_action can return for a key of the configuration
KeyActions ==
    {[action |-> "On", arg |-> n] : n \in Notes}
    \cup {[action |-> "ChangeWaveform", arg |-> w] : w \in WaveformKeys}
    \cup {[action |-> "ChangeOctave", arg |-> d] : d \in {"up", "down"}}
    \cup {[action |-> "ToggleTremolo", arg |-> "None"],
          [action |-> "None", arg |-> "None"]}

\* a non-synthetic KeyboardInput event arrives
KeyboardInput ==
    /\ ctl_pc = "idle"
    /\ ctl_pc' = "lock_note_state"
    /\ UNCHANGED << playing_notes, oscillators, waveform_type, octave_shift,
                    tremolo_enabled, global_time, accumulated_len, snapshot,
                    audio_data, note_state_lock, snapshot_lock, audio_pc,
                    ctl_event,
                    on_repeated,
                    tremolo_effect, scale, toggle_parity, enabled_built, call,
                    api_pc, envelope, audio_thread, exit_status, render_i,
                    block_view,
                    generator, voice, audio_buffer, accumulated_samples, samples_grid, render_time,
                    locks, create_loop, key_events >>

\* a lock that returns without waiting for the mutex
CtlLockNoteState_NoWait ==
    /\ ctl_pc = "lock_note_state"
    /\ note_state_lock' = "ctl"
    /\ ctl_pc' = "handle"
    /\ UNCHANGED << playing_notes, oscillators, waveform_type, octave_shift,
                    tremolo_enabled, global_time, accumulated_len, snapshot,
                    audio_data, snapshot_lock, audio_pc, ctl_event,
                    on_repeated, tremolo_effect, scale, toggle_parity,
                    enabled_built, call, api_pc, envelope, audio_thread,
                    exit_status, render_i, block_view,
                    generator, voice, audio_buffer, accumulated_samples, samples_grid, render_time,
                    locks, create_loop, key_events >>

\* note_state.lock().unwrap() returns once the mutex is free
CtlLockNoteState ==
    /\ ctl_pc = "lock_note_state"
    /\ note_state_lock = "free"
    /\ note_state_lock' = "ctl"
    /\ ctl_pc' = "handle"
    /\ UNCHANGED << playing_notes, oscillators, waveform_type, octave_shift,
                    tremolo_enabled, global_time, accumulated_len, snapshot,
                    audio_data, snapshot_lock, audio_pc, ctl_event,
                    on_repeated,
                    tremolo_effect, scale, toggle_parity, enabled_built, call,
                    api_pc, envelope, audio_thread, exit_status, render_i,
                    block_view,
                    generator, voice, audio_buffer, accumulated_samples, samples_grid, render_time,
                    locks, create_loop, key_events >>

\* the match on the key's state and on the result of keycode_to_action, under
\* the note_state guard: what one key event changes
HandleKey(state, ka) ==
    /\ ctl_event' = [state |-> state, action |-> ka.action, arg |-> ka.arg]
    /\ playing_notes' =
          IF ka.action = "On"
          THEN IF state = "Pressed"
               THEN note_on(playing_notes, ka.arg)
               ELSE note_off(playing_notes, ka.arg)
          ELSE playing_notes
    /\ on_repeated' =
          IF ka.action = "On"
          THEN IF state = "Pressed" /\ IsPlaying(playing_notes, ka.arg)
               THEN on_repeated \cup {ka.arg}
               ELSE IF state = "Released"
                    THEN on_repeated \ {ka.arg}
                    ELSE on_repeated
          ELSE on_repeated
    /\ octave_shift' =
          IF ka.action = "ChangeOctave"
          THEN ChangeOctaveShift(octave_shift, ka.arg)
          ELSE octave_shift
    /\ waveform_type' =
          IF ka.action = "ChangeWaveform" /\ state = "Pressed"
          THEN ka.arg
          ELSE waveform_type
    /\ tremolo_enabled' =
          IF ka.action = "ToggleTremolo"
          THEN fetch_xor(tremolo_enabled, TRUE)
          ELSE tremolo_enabled
    /\ tremolo_effect' =
          IF ka.action = "ToggleTremolo"
          THEN toggle_reset(tremolo_effect, tremolo_enabled)
          ELSE tremolo_effect
    /\ toggle_parity' =
          IF ka.action = "ToggleTremolo"
          THEN 1 - toggle_parity
          ELSE toggle_parity

\* the body of the handler, under the note_state guard: the key's state and
\* the result of keycode_to_action decide what is changed
CtlHandle ==
    /\ ctl_pc = "handle"
    /\ \E state \in {"Pressed", "Released"}, ka \in KeyActions :
          HandleKey(state, ka)
    /\ ctl_pc' = "unlock"
    /\ UNCHANGED << oscillators, global_time, accumulated_len, snapshot,
                    audio_data, note_state_lock, snapshot_lock, audio_pc,
                    scale, enabled_built, call, api_pc, envelope,
                    audio_thread, exit_status, render_i, block_view,
                    generator, voice, audio_buffer, accumulated_samples, samples_grid, render_time,
                    locks, create_loop, key_events >>

\* the handler returns: the note_state guard is dropped
CtlUnlock ==
    /\ ctl_pc = "unlock"
    /\ note_state_lock' = "free"
    /\ ctl_event' = NoEvent
    /\ ctl_pc' = "idle"
    /\ UNCHANGED << playing_notes, oscillators, waveform_type, octave_shift,
                    tremolo_enabled, global_time, accumulated_len, snapshot,
                    audio_data, snapshot_lock, audio_pc,
                    on_repeated,
                    tremolo_effect, scale, toggle_parity, enabled_built, call,
                    api_pc, envelope, audio_thread, exit_status, render_i,
                    block_view,
                    generator, voice, audio_buffer, accumulated_samples, samples_grid, render_time,
                    locks, create_loop, key_events >>

\* a RedrawRequested event arrives
RedrawRequested ==
    /\ ctl_pc = "idle"
    /\ ctl_pc' = "lock_snapshot"
    /\ UNCHANGED << playing_notes, oscillators, waveform_type, octave_shift,
                    tremolo_enabled, global_time, accumulated_len, snapshot,
                    audio_data, note_state_lock, snapshot_lock, audio_pc,
                    ctl_event,
                    on_repeated,
                    tremolo_effect, scale, toggle_parity, enabled_built, call,
                    api_pc, envelope, audio_thread, exit_status, render_i,
                    block_view,
                    generator, voice, audio_buffer, accumulated_samples, samples_grid, render_time,
                    locks, create_loop, key_events >>

\* a lock that returns without waiting for the mutex
CtlLockSnapshot_NoWait ==
    /\ ctl_pc = "lock_snapshot"
    /\ snapshot_lock' = "ctl"
    /\ ctl_pc' = "copy"
    /\ UNCHANGED << playing_notes, oscillators, waveform_type, octave_shift,
                    tremolo_enabled, global_time, accumulated_len, snapshot,
                    audio_data, note_state_lock, audio_pc, ctl_event,
                    on_repeated, tremolo_effect, scale, toggle_parity,
                    enabled_built, call, api_pc, envelope, audio_thread,
                    exit_status, render_i, block_view,
                    generator, voice, audio_buffer, accumulated_samples, samples_grid, render_time,
                    locks, create_loop, key_events >>

\* downsampled_audio_data.lock() returns once the mutex is free
CtlLockSnapshot ==
    /\ ctl_pc = "lock_snapshot"
    /\ snapshot_lock = "free"
    /\ snapshot_lock' = "ctl"
    /\ ctl_pc' = "copy"
    /\ UNCHANGED << playing_notes, oscillators, waveform_type, octave_shift,
                    tremolo_enabled, global_time, accumulated_len, snapshot,
                    audio_data, note_state_lock, audio_pc, ctl_event,
                    on_repeated,
                    tremolo_effect, scale, toggle_parity, enabled_built, call,
                    api_pc, envelope, audio_thread, exit_status, render_i,
                    block_view,
                    generator, voice, audio_buffer, accumulated_samples, samples_grid, render_time,
                    locks, create_loop, key_events >>

\* audio_data.samples = downsampled_audio_data.samples; the guard is dropped
CtlCopySnapshot ==
    /\ ctl_pc = "copy"
    /\ audio_data' = snapshot
    /\ snapshot_lock' = "free"
    /\ ctl_pc' = "idle"
    /\ UNCHANGED << playing_notes, oscillators, waveform_type, octave_shift,
                    tremolo_enabled, global_time, accumulated_len, snapshot,
                    note_state_lock, audio_pc, ctl_event,
                    on_repeated,
                    tremolo_effect, scale, toggle_parity, enabled_built, call,
                    api_pc, envelope, audio_thread, exit_status, render_i,
                    block_view,
                    generator, voice, audio_buffer, accumulated_samples, samples_grid, render_time,
                    locks, create_loop, key_events >>

Next ==
    \/ AudioCallback
    \/ AudioLockNoteState
    \/ AudioSynth
    \/ AudioDecimate
    \/ AudioLockSnapshot
    \/ AudioPublish
    \/ KeyboardInput
    \/ CtlLockNoteState
    \/ CtlHandle
    \/ CtlUnlock
    \/ RedrawRequested
    \/ CtlLockSnapshot
    \/ CtlCopySnapshot

Spec == Init /\ [][Next]_vars

\* ------------------------- the audio callback, one step per shared access
\* the control state a step of the block can read
ControlView ==
    [playing_notes |-> playing_notes, waveform_type |-> waveform_type,
     octave_shift |-> octave_shift, tremolo_enabled |-> tremolo_enabled]

\* under the note_state guard: read the octave shift and the playing notes,
\* advance the clock, retain the playing voices, create the missing ones
AudioReconcile ==
    /\ audio_pc = "synth"
    /\ \E ord \in Orders(DOMAIN playing_notes) :
          oscillators' = CreateVoices(Retain(oscillators, playing_notes), ord, 1,
                             playing_notes, octave_shift, waveform_type, global_time)
    /\ global_time' = global_time + BlockLen
    /\ render_i' = 1
    /\ block_view' = {ControlView}
    /\ audio_pc' = "render"
    /\ UNCHANGED << playing_notes, waveform_type, octave_shift,
                    tremolo_enabled, accumulated_len, snapshot, audio_data,
                    note_state_lock, snapshot_lock, ctl_pc, ctl_event,
                    on_repeated, tremolo_effect, scale, toggle_parity,
                    enabled_built, call, api_pc, envelope, audio_thread,
                    exit_status,
                    generator, voice, audio_buffer, accumulated_samples, samples_grid, render_time,
                    locks, create_loop, key_events >>

\* one iteration of the per-voice loop: read the waveform selection, hot-swap,
\* generate the block (generate_wave loads the enabled flag)
AudioRenderVoice ==
    /\ audio_pc = "render"
    /\ render_i <= Len(oscillators)
    /\ oscillators' = [oscillators EXCEPT
                          ![render_i] = RenderVoice(@, waveform_type, BlockLen)]
    /\ render_i' = render_i + 1
    /\ block_view' = block_view \cup {ControlView}
    /\ render_time' = Some(global_time)
    /\ UNCHANGED << playing_notes, waveform_type, octave_shift,
                    tremolo_enabled, global_time, accumulated_len, snapshot,
                    audio_data, note_state_lock, snapshot_lock, audio_pc,
                    ctl_pc, ctl_event, on_repeated, tremolo_effect, scale,
                    toggle_parity, enabled_built, call, api_pc, envelope,
                    audio_thread, exit_status,
                    generator, voice, audio_buffer, accumulated_samples, samples_grid,
                    locks, create_loop, key_events >>

\* the per-voice loop is over: the note_state guard is dropped
AudioBlockEnd ==
    /\ audio_pc = "render"
    /\ render_i > Len(oscillators)
    /\ note_state_lock' = "free"
    /\ render_i' = 0
    /\ block_view' = {}
    /\ audio_pc' = "decimate"
    /\ UNCHANGED << playing_notes, oscillators, waveform_type, octave_shift,
                    tremolo_enabled, global_time, accumulated_len, snapshot,
                    audio_data, snapshot_lock, ctl_pc, ctl_event, on_repeated,
                    tremolo_effect, scale, toggle_parity, enabled_built,
                    call, api_pc, envelope, audio_thread, exit_status,
                    generator, voice, audio_buffer, accumulated_samples, samples_grid, render_time,
                    locks, create_loop, key_events >>

\* under the snapshot guard: samples = [[0.0; 16]; 256]
AudioPublishZero ==
    /\ audio_pc = "publish"
    /\ snapshot' = 0
    /\ audio_pc' = "fill"
    /\ UNCHANGED << playing_notes, oscillators, waveform_type, octave_shift,
                    tremolo_enabled, global_time, accumulated_len, audio_data,
                    note_state_lock, snapshot_lock, ctl_pc, ctl_event,
                    on_repeated, tremolo_effect, scale, toggle_parity,
                    enabled_built, call, api_pc, envelope, audio_thread,
                    exit_status, render_i, block_view,
                    generator, voice, audio_buffer, accumulated_samples, samples_grid, render_time,
                    locks, create_loop, key_events >>

\* under the snapshot guard: one decimated scalar is written to its cell
AudioPublishFill ==
    /\ audio_pc = "fill"
    /\ snapshot < PublishedCells(accumulated_len)
    /\ snapshot' = snapshot + 1
    /\ UNCHANGED << playing_notes, oscillators, waveform_type, octave_shift,
                    tremolo_enabled, global_time, accumulated_len, audio_data,
                    note_state_lock, snapshot_lock, audio_pc, ctl_pc,
                    ctl_event, on_repeated, tremolo_effect, scale,
                    toggle_parity, enabled_built, call, api_pc, envelope,
                    audio_thread, exit_status, render_i, block_view,
                    generator, voice, audio_buffer, accumulated_samples, samples_grid, render_time,
                    locks, create_loop, key_events >>

\* the grid is filled: the snapshot guard is dropped, the accumulator cleared
AudioPublishDone ==
    /\ audio_pc = "fill"
    /\ snapshot >= PublishedCells(accumulated_len)
    /\ accumulated_len' = 0
    /\ snapshot_lock' = "free"
    /\ audio_pc' = "idle"
    /\ UNCHANGED << playing_notes, oscillators, waveform_type, octave_shift,
                    tremolo_enabled, global_time, snapshot, audio_data,
                    note_state_lock, ctl_pc, ctl_event, on_repeated,
                    tremolo_effect, scale, toggle_parity, enabled_built,
                    call, api_pc, envelope, audio_thread, exit_status,
                    render_i, block_view,
                    generator, voice, audio_buffer, accumulated_samples, samples_grid, render_time,
                    locks, create_loop, key_events >>

NextFine ==
    \/ AudioCallback
    \/ AudioLockNoteState
    \/ AudioReconcile
    \/ AudioRenderVoice
    \/ AudioBlockEnd
    \/ AudioDecimate
    \/ AudioLockSnapshot
    \/ AudioPublishZero
    \/ AudioPublishFill
    \/ AudioPublishDone
    \/ KeyboardInput
    \/ CtlLockNoteState
    \/ CtlHandle
    \/ CtlUnlock
    \/ RedrawRequested
    \/ CtlLockSnapshot
    \/ CtlCopySnapshot

SpecFine == Init /\ [][NextFine]_vars

\* --------------------- NoteState::handle_event called with any NoteEvent
\* the NoteEvent values
NoteEvents ==
    {[action |-> a, arg |-> n] : a \in {"On", "Off"}, n \in Notes}
    \cup {[action |-> "ChangeWaveform", arg |-> w] : w \in WaveformKeys}
    \cup {[action |-> "ChangeOctave", arg |-> d] : d \in {"up", "down"}}
    \cup {[action |-> "ToggleTremolo", arg |-> "None"]}
    \cup {[action |-> "ChangeKey", arg |-> k] : k \in RootKeys}

\* every frequency is within MaxRetune octaves of a note of the scale
InRetuneRange(oscs) ==
    \A k \in 1..Len(oscs) :
        \E n \in Notes, r \in (0 - MaxRetune)..MaxRetune :
            /\ calculate_frequency(n) # None
            /\ oscs[k].waveform_generator.frequency =
                  ShiftOctaves(Unwrap(calculate_frequency(n)), r)

\* note_state.handle_event(event, &waveform_type, &tremolo_effect, &scale),
\* called by the holder of the note_state guard
NoteStateHandleEvent ==
    /\ \E event \in NoteEvents :
          /\ call' = [op |-> "handle_event", arg |-> event, ret |-> "None"]
          /\ playing_notes' =
                CASE event.action = "On" -> note_on(playing_notes, event.arg)
                  [] event.action = "Off" -> note_off(playing_notes, event.arg)
                  [] OTHER -> playing_notes
          /\ waveform_type' =
                IF event.action = "ChangeWaveform" THEN event.arg ELSE waveform_type
          /\ oscillators' =
                IF event.action = "ChangeOctave"
                THEN change_octave(oscillators, event.arg)
                ELSE oscillators
          /\ tremolo_enabled' =
                IF event.action = "ToggleTremolo"
                THEN fetch_xor(tremolo_enabled, TRUE)
                ELSE tremolo_enabled
          /\ tremolo_effect' =
                IF event.action = "ToggleTremolo"
                THEN toggle_reset(tremolo_effect, tremolo_enabled)
                ELSE tremolo_effect
          /\ toggle_parity' =
                IF event.action = "ToggleTremolo"
                THEN 1 - toggle_parity
                ELSE toggle_parity
          /\ scale' =
                IF event.action = "ChangeKey"
                THEN change_root_note(scale, event.arg)
                ELSE scale
    /\ InRetuneRange(oscillators')
    /\ UNCHANGED << octave_shift, global_time, accumulated_len, snapshot,
                    audio_data, note_state_lock, snapshot_lock, audio_pc,
                    ctl_pc, ctl_event, on_repeated, enabled_built, api_pc,
                    envelope, audio_thread, exit_status, render_i, block_view,
                    generator, voice, audio_buffer, accumulated_samples, samples_grid, render_time,
                    locks, create_loop, key_events >>

\* one audio callback between two calls: the pool is reconciled and rendered
NoteStateBlock ==
    /\ global_time + BlockLen <= MaxSamples
    /\ \E ord \in Orders(DOMAIN playing_notes) :
          oscillators' = BlockOscillators(oscillators, ord, playing_notes,
                             octave_shift, waveform_type, global_time, BlockLen)
    /\ global_time' = global_time + BlockLen
    /\ render_time' = IF Len(oscillators') > 0
                       THEN Some(global_time') ELSE render_time
    /\ UNCHANGED << playing_notes, waveform_type, octave_shift,
                    tremolo_enabled, accumulated_len, snapshot, audio_data,
                    note_state_lock, snapshot_lock, audio_pc, ctl_pc,
                    ctl_event, on_repeated, tremolo_effect, scale,
                    toggle_parity, enabled_built, call, api_pc, envelope,
                    audio_thread, exit_status, render_i, block_view,
                    generator, voice, audio_buffer, accumulated_samples, samples_grid,
                    locks, create_loop, key_events >>

NextNoteState == NoteStateHandleEvent \/ NoteStateBlock

SpecNoteState == Init /\ [][NextNoteState]_vars

\* ------------------------------------- the process: threads start and end
\* the audio thread is spawned, the stream is not built yet
InitProcess ==
    /\ InitNoteState
    /\ InitControls
    /\ InitMainTremolo
    /\ InitThreads
    /\ InitLibrary
    /\ envelope = MainEnvelope
    /\ audio_thread = "starting"
    /\ exit_status = None

\* build_output_stream and stream.play() return Ok: callbacks begin
StreamPlays ==
    /\ audio_thread = "starting"
    /\ exit_status = None
    /\ audio_thread' = "streaming"
    /\ UNCHANGED << playing_notes, oscillators, waveform_type, octave_shift,
                    tremolo_enabled, global_time, accumulated_len, snapshot,
                    audio_data, note_state_lock, snapshot_lock, audio_pc,
                    ctl_pc, ctl_event, on_repeated, tremolo_effect, scale,
                    toggle_parity, enabled_built, call, api_pc, envelope,
                    exit_status, render_i, block_view,
                    generator, voice, audio_buffer, accumulated_samples, samples_grid, render_time,
                    locks, create_loop, key_events >>

\* build_output_stream or stream.play() returns Err: run_audio_loop returns
\* it through `?` and the audio thread ends with that result
StreamFails ==
    /\ audio_thread = "starting"
    /\ exit_status = None
    /\ audio_thread' = "failed"
    /\ UNCHANGED << playing_notes, oscillators, waveform_type, octave_shift,
                    tremolo_enabled, global_time, accumulated_len, snapshot,
                    audio_data, note_state_lock, snapshot_lock, audio_pc,
                    ctl_pc, ctl_event, on_repeated, tremolo_effect, scale,
                    toggle_parity, enabled_built, call, api_pc, envelope,
                    exit_status, render_i, block_view,
                    generator, voice, audio_buffer, accumulated_samples, samples_grid, render_time,
                    locks, create_loop, key_events >>

\* the sleep of run_audio_loop is over: the stream is dropped, the thread
\* ends with Ok(())
AudioThreadEnds ==
    /\ audio_thread = "streaming"
    /\ audio_pc = "idle"
    /\ exit_status = None
    /\ audio_thread' = "finished"
    /\ UNCHANGED << playing_notes, oscillators, waveform_type, octave_shift,
                    tremolo_enabled, global_time, accumulated_len, snapshot,
                    audio_data, note_state_lock, snapshot_lock, audio_pc,
                    ctl_pc, ctl_event, on_repeated, tremolo_effect, scale,
                    toggle_parity, enabled_built, call, api_pc, envelope,
                    exit_status, render_i, block_view,
                    generator, voice, audio_buffer, accumulated_samples, samples_grid, render_time,
                    locks, create_loop, key_events >>

\* WindowEvent::CloseRequested: std::process::exit(0)
CloseRequested ==
    /\ ctl_pc = "idle"
    /\ exit_status = None
    /\ exit_status' = Some("success")
    /\ UNCHANGED << playing_notes, oscillators, waveform_type, octave_shift,
                    tremolo_enabled, global_time, accumulated_len, snapshot,
                    audio_data, note_state_lock, snapshot_lock, audio_pc,
                    ctl_pc, ctl_event, on_repeated, tremolo_effect, scale,
                    toggle_parity, enabled_built, call, api_pc, envelope,
                    audio_thread, render_i, block_view,
                    generator, voice, audio_buffer, accumulated_samples, samples_grid, render_time,
                    locks, create_loop, key_events >>

\* event_loop.run returns (its result is discarded), run_event_loop returns
EventLoopReturns ==
    /\ ctl_pc = "idle"
    /\ exit_status = None
    /\ ctl_pc' = "join"
    /\ UNCHANGED << playing_notes, oscillators, waveform_type, octave_shift,
                    tremolo_enabled, global_time, accumulated_len, snapshot,
                    audio_data, note_state_lock, snapshot_lock, audio_pc,
                    ctl_event, on_repeated, tremolo_effect, scale,
                    toggle_parity, enabled_built, call, api_pc, envelope,
                    audio_thread, exit_status, render_i, block_view,
                    generator, voice, audio_buffer, accumulated_samples, samples_grid, render_time,
                    locks, create_loop, key_events >>

\* audio_thread.join().unwrap()? once the audio thread has ended: main
\* returns the thread's error, or Ok(())
JoinAudioThread ==
    /\ ctl_pc = "join"
    /\ exit_status = None
    /\ audio_thread \in {"failed", "finished"}
    /\ exit_status' = IF audio_thread = "failed"
                      THEN Some("stream_error") ELSE Some("success")
    /\ UNCHANGED << playing_notes, oscillators, waveform_type, octave_shift,
                    tremolo_enabled, global_time, accumulated_len, snapshot,
                    audio_data, note_state_lock, snapshot_lock, audio_pc,
                    ctl_pc, ctl_event, on_repeated, tremolo_effect, scale,
                    toggle_parity, enabled_built, call, api_pc, envelope,
                    audio_thread, render_i, block_view,
                    generator, voice, audio_buffer, accumulated_samples, samples_grid, render_time,
                    locks, create_loop, key_events >>

NextProcess ==
    \/ StreamPlays
    \/ StreamFails
    \/ AudioThreadEnds
    \/ CloseRequested
    \/ EventLoopReturns
    \/ JoinAudioThread
    \/ (exit_status = None /\ Next)

SpecProcess == InitProcess /\ [][NextProcess]_vars

\* ------------------------------------ a TremoloEffect and its callers
\* TremoloEffect::builder().rate(r).depth(d).enabled(e).build(sample_rate)
InitTremolo ==
    /\ InitNoteState
    /\ InitControls
    /\ InitThreads
    /\ InitLibrary
    /\ envelope = MainEnvelope
    /\ audio_thread = "streaming"
    /\ exit_status = None
    /\ toggle_parity = 0
    /\ \E e \in BOOLEAN, r \in TremoloRates, d \in TremoloDepths :
          /\ tremolo_enabled = e
          /\ enabled_built = e
          /\ tremolo_effect = TremoloEffectBuild(r, d, LibSampleRate)

\* effect.process(sample, sample_rate), by the holder of the &mut borrow
TremoloProcess ==
    /\ api_pc = "idle"
    /\ tremolo_effect.tremolo.table_index < MaxTableIndex
    /\ \E sample \in Samples, sample_rate \in {LibSampleRate, BUILDER_SAMPLE_RATE} :
          LET r == TremoloEffect_process(tremolo_effect, tremolo_enabled,
                                         sample, sample_rate)
          IN  /\ tremolo_effect' = r.effect
              /\ call' = [op |-> "process",
                          arg |-> [sample |-> sample, sample_rate |-> sample_rate],
                          ret |-> r.ret]
    /\ UNCHANGED << playing_notes, oscillators, waveform_type, octave_shift,
                    tremolo_enabled, global_time, accumulated_len, snapshot,
                    audio_data, note_state_lock, snapshot_lock, audio_pc,
                    ctl_pc, ctl_event, on_repeated, scale, toggle_parity,
                    enabled_built, api_pc, envelope, audio_thread, exit_status,
                    render_i, block_view,
                    generator, voice, audio_buffer, accumulated_samples, samples_grid, render_time,
                    locks, create_loop, key_events >>

\* effect.toggle(): the fetch_xor; the call returns here if the flag was false
TremoloToggle ==
    /\ api_pc = "idle"
    /\ tremolo_enabled' = fetch_xor(tremolo_enabled, TRUE)
    /\ toggle_parity' = 1 - toggle_parity
    /\ api_pc' = IF tremolo_enabled THEN "toggle_reset" ELSE "idle"
    /\ call' = [op |-> "toggle", arg |-> "None", ret |-> "None"]
    /\ UNCHANGED << playing_notes, oscillators, waveform_type, octave_shift,
                    global_time, accumulated_len, snapshot, audio_data,
                    note_state_lock, snapshot_lock, audio_pc, ctl_pc,
                    ctl_event, on_repeated, tremolo_effect, scale,
                    enabled_built, envelope, audio_thread, exit_status,
                    render_i, block_view,
                    generator, voice, audio_buffer, accumulated_samples, samples_grid, render_time,
                    locks, create_loop, key_events >>

\* effect.toggle(): the flag was true, the Tremolo is locked and reset
TremoloToggleReset ==
    /\ api_pc = "toggle_reset"
    /\ tremolo_effect' = toggle_reset(tremolo_effect, TRUE)
    /\ api_pc' = "idle"
    /\ UNCHANGED << playing_notes, oscillators, waveform_type, octave_shift,
                    tremolo_enabled, global_time, accumulated_len, snapshot,
                    audio_data, note_state_lock, snapshot_lock, audio_pc,
                    ctl_pc, ctl_event, on_repeated, scale, toggle_parity,
                    enabled_built, call, envelope, audio_thread, exit_status,
                    render_i, block_view,
                    generator, voice, audio_buffer, accumulated_samples, samples_grid, render_time,
                    locks, create_loop, key_events >>

\* effect.set_rate(rate)
TremoloSetRate ==
    /\ \E rate \in SetValues :
          /\ tremolo_effect' = set_rate(tremolo_effect, rate)
          /\ call' = [op |-> "set_rate", arg |-> rate, ret |-> "None"]
    /\ UNCHANGED << playing_notes, oscillators, waveform_type, octave_shift,
                    tremolo_enabled, global_time, accumulated_len, snapshot,
                    audio_data, note_state_lock, snapshot_lock, audio_pc,
                    ctl_pc, ctl_event, on_repeated, scale, toggle_parity,
                    enabled_built, api_pc, envelope, audio_thread, exit_status,
                    render_i, block_view,
                    generator, voice, audio_buffer, accumulated_samples, samples_grid, render_time,
                    locks, create_loop, key_events >>

\* effect.set_depth(depth)
TremoloSetDepth ==
    /\ \E depth \in SetValues :
          /\ tremolo_effect' = set_depth(tremolo_effect, depth)
          /\ call' = [op |-> "set_depth", arg |-> depth, ret |-> "None"]
    /\ UNCHANGED << playing_notes, oscillators, waveform_type, octave_shift,
                    tremolo_enabled, global_time, accumulated_len, snapshot,
                    audio_data, note_state_lock, snapshot_lock, audio_pc,
                    ctl_pc, ctl_event, on_repeated, scale, toggle_parity,
                    enabled_built, api_pc, envelope, audio_thread, exit_status,
                    render_i, block_view,
                    generator, voice, audio_buffer, accumulated_samples, samples_grid, render_time,
                    locks, create_loop, key_events >>

\* the audio thread loads the enabled flag (Oscillator::generate_wave)
TremoloLoadEnabled ==
    /\ call' = [op |-> "load_enabled", arg |-> "None", ret |-> tremolo_enabled]
    /\ UNCHANGED << playing_notes, oscillators, waveform_type, octave_shift,
                    tremolo_enabled, global_time, accumulated_len, snapshot,
                    audio_data, note_state_lock, snapshot_lock, audio_pc,
                    ctl_pc, ctl_event, on_repeated, tremolo_effect, scale,
                    toggle_parity, enabled_built, api_pc, envelope,
                    audio_thread, exit_status, render_i, block_view,
                    generator, voice, audio_buffer, accumulated_samples, samples_grid, render_time,
                    locks, create_loop, key_events >>

NextTremolo ==
    \/ TremoloProcess
    \/ TremoloToggle
    \/ TremoloToggleReset
    \/ TremoloSetRate
    \/ TremoloSetDepth
    \/ TremoloLoadEnabled

SpecTremolo == InitTremolo /\ [][NextTremolo]_vars

\* ------------------------------------ an AmplitudeEnvelope and its caller
\* the envelopes with non-negative stage times and a sustain level in [0,1]
Envelopes ==
    [attack_time : 0..MaxStage, decay_time : 0..MaxStage,
     sustain_level : SustainLevels, release_time : 0..MaxStage]

InitEnvelope ==
    /\ InitNoteState
    /\ InitControls
    /\ InitMainTremolo
    /\ InitThreads
    /\ InitLibrary
    /\ audio_thread = "streaming"
    /\ exit_status = None
    /\ envelope \in Envelopes

\* envelope.amplitude_at_time(time)
EnvelopeAmplitudeAtTime ==
    /\ \E time \in 0..(3 * MaxStage + 1) :
          call' = [op |-> "amplitude_at_time", arg |-> time,
                   ret |-> amplitude_at_time(envelope, time)]
    /\ UNCHANGED << playing_notes, oscillators, waveform_type, octave_shift,
                    tremolo_enabled, global_time, accumulated_len, snapshot,
                    audio_data, note_state_lock, snapshot_lock, audio_pc,
                    ctl_pc, ctl_event, on_repeated, tremolo_effect, scale,
                    toggle_parity, enabled_built, api_pc, envelope,
                    audio_thread, exit_status, render_i, block_view,
                    generator, voice, audio_buffer, accumulated_samples, samples_grid, render_time,
                    locks, create_loop, key_events >>

NextEnvelope == EnvelopeAmplitudeAtTime

SpecEnvelope == InitEnvelope /\ [][NextEnvelope]_vars

\* ------------------------------------------------- f32 arithmetic (IEEE 754)
\* a finite f32 is [sign, m, e] with the value sign * m * 2^e; m is 0 (and then
\* e is 0 and sign is 1) or has MANTISSA_BITS bits.  Every operation rounds to
\* nearest, ties to even.  Subnormals, infinities and NaN are out of the range
\* of the values of the model.
MANTISSA_BITS == 24

F32Zero == [sign |-> 1, m |-> 0, e |-> 0]

\* the number of bits of a positive integer below 2^31
BitLen(n) == CHOOSE k \in 1..31 : n \div (2 ^ (k - 1)) = 1

\* the f32 nearest to sign * n * 2^e, for 0 <= n < 2^31; sticky tells that the
\* exact magnitude is above n * 2^e, by less than 2^e
F32Round(sign, n, e, sticky) ==
    IF n = 0 THEN F32Zero
    ELSE LET bits == BitLen(n)
         IN  IF bits <= MANTISSA_BITS
             THEN [sign |-> sign, m |-> n * 2 ^ (MANTISSA_BITS - bits),
                   e |-> e - (MANTISSA_BITS - bits)]
             ELSE LET sh == bits - MANTISSA_BITS
                      q == n \div (2 ^ sh)
                      r == n % (2 ^ sh)
                      half == 2 ^ (sh - 1)
                      up == \/ r > half
                            \/ r = half /\ sticky
                            \/ r = half /\ q % 2 = 1
                      m == IF up THEN q + 1 ELSE q
                  IN  IF m = 2 ^ MANTISSA_BITS
                      THEN [sign |-> sign, m |-> 2 ^ (MANTISSA_BITS - 1),
                            e |-> e + sh + 1]
                      ELSE [sign |-> sign, m |-> m, e |-> e + sh]

\* an integer literal below 2^31 in magnitude, as f32
F32(n) == F32Round(IF n < 0 THEN 0 - 1 ELSE 1, IF n < 0 THEN 0 - n ELSE n, 0, FALSE)

\* long division: k more bits of the quotient of rem / d, after the bits q
RECURSIVE DivBits(_, _, _, _)
DivBits(rem, d, q, k) ==
    IF k = 0 THEN [q |-> q, rem |-> rem]
    ELSE IF 2 * rem >= d
         THEN DivBits(2 * rem - d, d, 2 * q + 1, k - 1)
         ELSE DivBits(2 * rem, d, 2 * q, k - 1)

\* a / b for b other than 0
F32Div(a, b) ==
    IF a.m = 0 THEN F32Zero
    ELSE LET guard == MANTISSA_BITS + 2
             r == DivBits(a.m % b.m, b.m, a.m \div b.m, guard)
         IN  F32Round(a.sign * b.sign, r.q, a.e - b.e - guard, r.rem # 0)

\* a * b: the 48-bit product of the mantissas from 12-bit halves
F32Mul(a, b) ==
    IF a.m = 0 \/ b.m = 0 THEN F32Zero
    ELSE LET h == 2 ^ (MANTISSA_BITS \div 2)
             ah == a.m \div h
             al == a.m % h
             bh == b.m \div h
             bl == b.m % h
             mid == ah * bl + al * bh
             low == (mid % h) * h + al * bl
             hi == ah * bh + mid \div h + low \div (h * h)
             lo == low % (h * h)
             keep == (h * h) \div 4
         IN  F32Round(a.sign * b.sign, hi * 4 + lo \div keep,
                      a.e + b.e + MANTISSA_BITS - 2, lo % keep # 0)

\* x + y for x of the larger exponent, neither 0: x keeps `guard` more bits
\* (6 at most), y is shifted to x's scale and loses its low bits in sticky
F32AddAligned(x, y) ==
    LET d == x.e - y.e
        guard == IF d < 6 THEN d ELSE 6
        lost == d - guard
        big == x.m * 2 ^ guard
        small == IF lost > 30 THEN 0 ELSE y.m \div (2 ^ lost)
        sticky == IF lost > 30 THEN TRUE ELSE y.m % (2 ^ lost) # 0
    IN  IF x.sign = y.sign
        THEN F32Round(x.sign, big + small, x.e - guard, sticky)
        ELSE IF sticky
             THEN F32Round(x.sign, big - small - 1, x.e - guard, TRUE)
             ELSE IF big >= small
                  THEN F32Round(x.sign, big - small, x.e - guard, FALSE)
                  ELSE F32Round(y.sign, small - big, x.e - guard, FALSE)

\* a + b
F32Add(a, b) ==
    IF a.m = 0 THEN b
    ELSE IF b.m = 0 THEN a
    ELSE IF a.e >= b.e THEN F32AddAligned(a, b) ELSE F32AddAligned(b, a)

\* a - b
F32Sub(a, b) == F32Add(a, [b EXCEPT !.sign = IF b.m = 0 THEN 1 ELSE 0 - b.sign])

\* a % 1.0: the fraction of a, with the sign of a (exact)
F32Rem1(a) ==
    IF a.e >= 0 THEN F32Zero
    ELSE IF a.e <= 0 - MANTISSA_BITS THEN a
    ELSE F32Round(a.sign, a.m % (2 ^ (0 - a.e)), a.e, FALSE)

\* a as usize: truncated, a negative value is 0, a value past the integers of
\* the model is USIZE_MAX
F32AsUsize(a) ==
    IF a.sign < 0 \/ a.m = 0 THEN 0
    ELSE IF a.e >= 7 THEN USIZE_MAX
    ELSE IF a.e >= 0 THEN a.m * 2 ^ a.e
    ELSE IF a.e < 0 - 30 THEN 0
    ELSE a.m \div (2 ^ (0 - a.e))

\* 0.0 <= a < 1.0
F32InUnitInterval(a) == a.m = 0 \/ (a.sign = 1 /\ a.e <= 0 - MANTISSA_BITS)

\* floor(a * units) for an f32 below 2^20 in magnitude and units a power of 2
\* with exponent k: a in the fixed point of 1/units
F32ToFixed(a, k) ==
    LET s == a.e + k
        mag == IF s >= 0 THEN a.m * 2 ^ s
               ELSE IF s < 0 - 30 THEN 0
               ELSE a.m \div (2 ^ (0 - s))
        exact == s >= 0 \/ (s >= 0 - 30 /\ a.m % (2 ^ (0 - s)) = 0)
    IN  IF a.sign = 1 THEN mag
        ELSE IF exact THEN 0 - mag ELSE 0 - mag - 1

\* ------------------------- WaveformGenerator (waveform_generator.rs)
\* the phase, the phase increment, the frequency and the sample rate are f32;
\* a sample is in 1/1000 (the table values and the interpolation are rounded
\* down to that unit)
WAVETABLE_SIZE == 1024
Waveforms == {"Silence", "Sine", "Square", "Sawtooth", "Triangle"}
\* the sample rates a generator is built with
SampleRates == {LibSampleRate, BUILDER_SAMPLE_RATE}
\* frequencies a generator is built with or set to
Frequencies == {0 - 3, 0, 1, 3, 7}
\* get_sample is called at most this many times
MaxGetSamples == 4
\* the fraction between two table entries is kept to 2^-FRAC_BITS
FRAC_BITS == 8

\* WAVETABLES[k][i], k the position of the waveform in the table set
WAVETABLES(k, i) ==
    CASE k = 0 -> 0
      [] k = 1 -> SinMilli(i)
      [] k = 2 -> IF i < WAVETABLE_SIZE \div 2 THEN SCALE_FACTOR ELSE 0 - SCALE_FACTOR
      [] k = 3 -> (2 * SCALE_FACTOR * i) \div WAVETABLE_SIZE - SCALE_FACTOR
      [] k = 4 -> IF 2 * i < WAVETABLE_SIZE
                  THEN (4 * SCALE_FACTOR * i) \div WAVETABLE_SIZE - SCALE_FACTOR
                  ELSE 3 * SCALE_FACTOR - (4 * SCALE_FACTOR * i) \div WAVETABLE_SIZE

\* the match of WaveformGenerator::new: the table a waveform refers to
TableOf(waveform) ==
    CASE waveform = "Silence" -> 0
      [] waveform = "Sine" -> 1
      [] waveform = "Square" -> 2
      [] waveform = "Sawtooth" -> 3
      [] waveform = "Triangle" -> 4

\* *wavetable == WAVETABLES[k]: the comparison of the tables' contents
SameTable(a, b) ==
    \/ a = b
    \/ \A i \in 0..(WAVETABLE_SIZE - 1) : WAVETABLES(a, i) = WAVETABLES(b, i)

\* WaveformGenerator::new
WaveformGenerator_new(waveform, frequency, sample_rate) ==
    [wavetable |-> TableOf(waveform),
     phase |-> F32Zero,
     phase_inc |-> F32Div(frequency, sample_rate),
     sample_rate |-> sample_rate]

\* WaveformGenerator::get_waveform: the first table with the same contents
WaveformGenerator_get_waveform(gen) ==
    CASE SameTable(gen.wavetable, 0) -> "Silence"
      [] SameTable(gen.wavetable, 1) -> "Sine"
      [] SameTable(gen.wavetable, 2) -> "Square"
      [] SameTable(gen.wavetable, 3) -> "Sawtooth"
      [] SameTable(gen.wavetable, 4) -> "Triangle"
      [] OTHER -> "unreachable"

\* WaveformGenerator::update_phase
update_phase(gen) ==
    [gen EXCEPT !.phase = F32Rem1(F32Add(gen.phase, gen.phase_inc))]

\* WaveformGenerator::get_sample: the result and the generator after the
\* call; an index past the table panics
get_sample(gen) ==
    LET scaled == F32Mul(gen.phase, F32(WAVETABLE_SIZE))
        index == F32AsUsize(scaled)
        frac == F32ToFixed(F32Sub(scaled, F32(index)), FRAC_BITS)
        sample == WAVETABLES(gen.wavetable, index)
        next_sample == WAVETABLES(gen.wavetable, (index + 1) % WAVETABLE_SIZE)
    IN  IF index >= WAVETABLE_SIZE
        THEN [panicked |-> TRUE, ret |-> 0, generator |-> gen]
        ELSE [panicked |-> FALSE,
              ret |-> sample + (frac * (next_sample - sample)) \div (2 ^ FRAC_BITS),
              generator |-> update_phase(gen)]

\* a set_frequency that restarts the period
WaveformGenerator_set_frequency_ResetPhase(gen, frequency) ==
    [gen EXCEPT !.phase_inc = F32Div(frequency, gen.sample_rate),
                !.phase = F32Zero]

\* WaveformGenerator::set_frequency
WaveformGenerator_set_frequency(gen, frequency) ==
    [gen EXCEPT !.phase_inc = F32Div(frequency, gen.sample_rate)]

\* WaveformGenerator::get_frequency
WaveformGenerator_get_frequency(gen) == F32Mul(gen.phase_inc, gen.sample_rate)

\* --------------------------------- a WaveformGenerator and its caller
\* WaveformGenerator::new(waveform, frequency, sample_rate); the field n of
\* call counts the get_sample calls
InitGenerator ==
    /\ InitNoteState
    /\ InitControls
    /\ InitMainTremolo
    /\ InitThreads
    /\ envelope = MainEnvelope
    /\ audio_thread = "streaming"
    /\ exit_status = None
    /\ voice = None
    /\ audio_buffer = None
    /\ call = [op |-> "new", arg |-> Unit, ret |-> Unit, n |-> 0]
    /\ \E waveform \in Waveforms, frequency \in Frequencies,
          sample_rate \in SampleRates :
          generator =
             Some(WaveformGenerator_new(waveform, F32(frequency), F32(sample_rate)))

\* generator.get_sample()
GeneratorGetSample ==
    /\ generator # None
    /\ call.n < MaxGetSamples
    /\ LET r == get_sample(Unwrap(generator))
       IN  /\ generator' = Some(r.generator)
           /\ call' = [op |-> "get_sample", arg |-> Unit,
                       ret |-> IF r.panicked THEN [panic |-> TRUE]
                                             ELSE [sample |-> r.ret],
                       n |-> call.n + 1]
    /\ UNCHANGED << playing_notes, oscillators, waveform_type, octave_shift,
                    tremolo_enabled, global_time, accumulated_len, snapshot,
                    audio_data, note_state_lock, snapshot_lock, audio_pc,
                    ctl_pc, ctl_event, on_repeated, tremolo_effect, scale,
                    toggle_parity, enabled_built, api_pc, envelope,
                    audio_thread, exit_status, render_i, block_view, voice,
                    audio_buffer, accumulated_samples, samples_grid, render_time,
                    locks, create_loop, key_events >>

\* generator.set_frequency(frequency)
GeneratorSetFrequency ==
    /\ generator # None
    /\ \E frequency \in Frequencies :
          /\ generator' =
                Some(WaveformGenerator_set_frequency(Unwrap(generator),
                                                     F32(frequency)))
          /\ call' = [op |-> "set_frequency", arg |-> [f32 |-> F32(frequency)],
                      ret |-> Unit, n |-> call.n]
    /\ UNCHANGED << playing_notes, oscillators, waveform_type, octave_shift,
                    tremolo_enabled, global_time, accumulated_len, snapshot,
                    audio_data, note_state_lock, snapshot_lock, audio_pc,
                    ctl_pc, ctl_event, on_repeated, tremolo_effect, scale,
                    toggle_parity, enabled_built, api_pc, envelope,
                    audio_thread, exit_status, render_i, block_view, voice,
                    audio_buffer, accumulated_samples, samples_grid, render_time,
                    locks, create_loop, key_events >>

\* generator.get_frequency()
GeneratorGetFrequency ==
    /\ generator # None
    /\ call' = [op |-> "get_frequency", arg |-> Unit,
                ret |-> [f32 |-> WaveformGenerator_get_frequency(Unwrap(generator))],
                n |-> call.n]
    /\ UNCHANGED << playing_notes, oscillators, waveform_type, octave_shift,
                    tremolo_enabled, global_time, accumulated_len, snapshot,
                    audio_data, note_state_lock, snapshot_lock, audio_pc,
                    ctl_pc, ctl_event, on_repeated, tremolo_effect, scale,
                    toggle_parity, enabled_built, api_pc, envelope,
                    audio_thread, exit_status, render_i, block_view, generator,
                    voice, audio_buffer, accumulated_samples, samples_grid, render_time,
                    locks, create_loop, key_events >>

\* generator.get_waveform()
GeneratorGetWaveform ==
    /\ generator # None
    /\ call' = [op |-> "get_waveform", arg |-> Unit,
                ret |-> [waveform |->
                            WaveformGenerator_get_waveform(Unwrap(generator))],
                n |-> call.n]
    /\ UNCHANGED << playing_notes, oscillators, waveform_type, octave_shift,
                    tremolo_enabled, global_time, accumulated_len, snapshot,
                    audio_data, note_state_lock, snapshot_lock, audio_pc,
                    ctl_pc, ctl_event, on_repeated, tremolo_effect, scale,
                    toggle_parity, enabled_built, api_pc, envelope,
                    audio_thread, exit_status, render_i, block_view, generator,
                    voice, audio_buffer, accumulated_samples, samples_grid, render_time,
                    locks, create_loop, key_events >>

NextGenerator ==
    \/ GeneratorGetSample
    \/ GeneratorSetFrequency
    \/ GeneratorGetFrequency
    \/ GeneratorGetWaveform

SpecGenerator == InitGenerator /\ [][NextGenerator]_vars

\* ------------------------------- decimation and publish (main.rs 282-316)
\* the samples are f32; tenths of the values the callback accumulates
SampleTenths == {0 - 3, 0, 9}
SampleValues == {F32Div(F32(t), F32(10)) : t \in SampleTenths}
\* a callback of more samples than fill GRID_ROWS decimated scalars
LongBlockLen == (GRID_ROWS + 1) * DownsampleFactor
\* data of a callback: one sample, or downsample_factor times the same sample
Blocks ==
    {[i \in 1..n |-> c] : n \in {1, DownsampleFactor}, c \in SampleValues}
\* the long blocks, of one repeated sample
LongBlocks == {[i \in 1..LongBlockLen |-> c] : c \in SampleValues}

\* slice::chunks(size): the number of chunks, and the c-th chunk (from 1); the
\* last chunk is the shorter rest
NumChunks(seq, size) == (Len(seq) + size - 1) \div size

Chunk(seq, size, c) == SubSeq(seq, (c - 1) * size + 1, Min(c * size, Len(seq)))

\* chunk.iter().sum() of the first n samples of a chunk
RECURSIVE Sum(_, _)
Sum(chunk, n) == IF n = 0 THEN F32Zero ELSE F32Add(Sum(chunk, n - 1), chunk[n])

\* a mean that is not divided
Average_Undivided(chunk) == Sum(chunk, Len(chunk))

\* sum / chunk.len() as f32
Average(chunk) == F32Div(Sum(chunk, Len(chunk)), F32(Len(chunk)))

\* downsampled_samples: the mean of every chunk of downsample_factor samples
Downsample(acc) ==
    [c \in 1..NumChunks(acc, DownsampleFactor) |->
        Average(Chunk(acc, DownsampleFactor, c))]

\* a publish that stores into the grid of the previous snapshot
StoreGrid_Overlay(downsampled) ==
    LET num_frames == Min(Len(downsampled), GRID_ROWS)
        taken == Min(NumChunks(downsampled, GRID_COLS), num_frames)
        stored == {cell \in (0..(taken - 1)) \X (0..(GRID_COLS - 1)) :
                      cell[2] < Len(Chunk(downsampled, GRID_COLS, cell[1] + 1))}
        value(cell) == IF cell \in stored
                       THEN Chunk(downsampled, GRID_COLS, cell[1] + 1)[cell[2] + 1]
                       ELSE samples_grid[cell]
        cells == {cell \in stored \cup DOMAIN samples_grid : value(cell) # F32Zero}
    IN  [cell \in cells |-> value(cell)]

\* the grid after samples = [[0.0; 16]; 256] and the stores samples[i][j] of
\* the first num_frames chunks of 16 scalars: the cells that are not 0.0
StoreGrid(downsampled) ==
    LET num_frames == Min(Len(downsampled), GRID_ROWS)
        taken == Min(NumChunks(downsampled, GRID_COLS), num_frames)
        cells == {cell \in (0..(taken - 1)) \X (0..(GRID_COLS - 1)) :
                     LET chunk == Chunk(downsampled, GRID_COLS, cell[1] + 1)
                     IN  /\ cell[2] < Len(chunk)
                         /\ chunk[cell[2] + 1] # F32Zero}
    IN  [cell \in cells |->
            Chunk(downsampled, GRID_COLS, cell[1] + 1)[cell[2] + 1]]

\* samples[i][j]
GridAt(grid, i, j) ==
    IF << i, j >> \in DOMAIN grid THEN grid[<< i, j >>] ELSE F32Zero

\* ------------------------ the tail of the audio callback and its caller
InitDecimate ==
    /\ InitNoteState
    /\ InitControls
    /\ InitMainTremolo
    /\ InitThreads
    /\ envelope = MainEnvelope
    /\ audio_thread = "streaming"
    /\ exit_status = None
    /\ generator = None
    /\ voice = None
    /\ audio_buffer = None
    /\ call = [op |-> "new", arg |-> Unit, ret |-> Unit]

\* a test that waits for more than downsample_factor samples
ReachedFactor_Strict(acc) == Len(acc) > DownsampleFactor

\* accumulated_samples.len() >= downsample_factor
ReachedFactor(acc) == Len(acc) >= DownsampleFactor

\* accumulated_samples.extend(data); the decimation and the publish when
\* downsample_factor samples or more are accumulated; a long block comes only
\* when the accumulator is empty
DecimateCallback ==
    /\ \E block \in Blocks \cup (IF accumulated_samples = << >>
                                  THEN LongBlocks ELSE {}) :
       \E acc \in {accumulated_samples \o block} :
          IF ReachedFactor(acc)
          THEN \E downsampled \in {Downsample(acc)} :
                  /\ samples_grid' = StoreGrid(downsampled)
                  /\ snapshot' = PublishedCells(Len(acc))
                  /\ accumulated_samples' = << >>
                  /\ accumulated_len' = 0
                  /\ call' = [op |-> "callback", arg |-> [block |-> block],
                              ret |-> [published |-> downsampled]]
          ELSE /\ accumulated_samples' = acc
               /\ accumulated_len' = Len(acc)
               /\ call' = [op |-> "callback", arg |-> [block |-> block],
                           ret |-> Unit]
               /\ UNCHANGED << samples_grid, snapshot >>
    /\ UNCHANGED << playing_notes, oscillators, waveform_type, octave_shift,
                    tremolo_enabled, global_time, audio_data, note_state_lock,
                    snapshot_lock, audio_pc, ctl_pc, ctl_event, on_repeated,
                    tremolo_effect, scale, toggle_parity, enabled_built,
                    api_pc, envelope, audio_thread, exit_status, render_i,
                    block_view, generator, voice, audio_buffer, render_time,
                    locks, create_loop, key_events >>

NextDecimate == DecimateCallback

SpecDecimate == InitDecimate /\ [][NextDecimate]_vars

\* --------------------------------------------- AudioBuffer (audiobuffer.rs)
\* data.len() of the buffers of the model is at most MaxBufferLen
MaxBufferLen == 6
\* num_channels of the buffers of the model is 1..MaxChannels
MaxChannels == 3
\* the samples a caller writes through channel_mut
WrittenSamples == {F32(1)}

\* &data[start..end]: the slice is the offset it starts at and its items; a
\* range that is not inside the array panics
Slice(data, start, end) ==
    IF start <= end /\ end <= Len(data)
    THEN [start |-> start, items |-> SubSeq(data, start + 1, end)]
    ELSE [panic |-> TRUE]

\* the indices of the backing array a slice covers
SliceIndices(slice) == slice.start..(slice.start + Len(slice.items) - 1)

num_frames(buf) == Len(buf.data) \div buf.num_channels

\* a channel that starts at channel_index * num_channels
channel_Interleaved(buf, channel_index) ==
    LET start_index == channel_index * buf.num_channels
    IN  Slice(buf.data, start_index, start_index + num_frames(buf))

channel(buf, channel_index) ==
    LET start_index == channel_index * num_frames(buf)
    IN  Slice(buf.data, start_index, start_index + num_frames(buf))

channel_mut(buf, channel_index) ==
    LET start_index == channel_index * num_frames(buf)
        channel_len == num_frames(buf)
    IN  Slice(buf.data, start_index, start_index + channel_len)

\* slice[offset] = value through a slice of the buffer's data
WriteThrough(buf, slice, offset, value) ==
    [buf EXCEPT !.data[slice.start + offset + 1] = value]

\* AudioBuffer { data: vec![0.0; len], num_channels }
InitBuffer ==
    /\ InitNoteState
    /\ InitControls
    /\ InitMainTremolo
    /\ InitThreads
    /\ envelope = MainEnvelope
    /\ audio_thread = "streaming"
    /\ exit_status = None
    /\ generator = None
    /\ voice = None
    /\ \E len \in 0..MaxBufferLen, num_channels \in 1..MaxChannels :
          audio_buffer = Some([data |-> [k \in 1..len |-> F32Zero],
                               num_channels |-> num_channels])
    /\ call = [op |-> "new", arg |-> Unit, ret |-> Unit]

\* buffer.channel(channel_index), for an index up to num_channels (one past the
\* channels)
BufferChannel ==
    /\ \E channel_index \in 0..Unwrap(audio_buffer).num_channels :
          call' = [op |-> "channel",
                   arg |-> [channel_index |-> channel_index],
                   ret |-> channel(Unwrap(audio_buffer), channel_index)]
    /\ UNCHANGED << playing_notes, oscillators, waveform_type, octave_shift,
                    tremolo_enabled, global_time, accumulated_len, snapshot,
                    audio_data, note_state_lock, snapshot_lock, audio_pc,
                    ctl_pc, ctl_event, on_repeated, tremolo_effect, scale,
                    toggle_parity, enabled_built, api_pc, envelope,
                    audio_thread, exit_status, render_i, block_view, generator,
                    voice, audio_buffer, accumulated_samples, samples_grid, render_time,
                    locks, create_loop, key_events >>

\* buffer.channel_mut(channel_index)[offset] = value, for an offset inside the
\* slice
BufferChannelMut ==
    /\ \E channel_index \in 0..Unwrap(audio_buffer).num_channels :
       \E slice \in {channel_mut(Unwrap(audio_buffer), channel_index)} :
          IF slice = [panic |-> TRUE] \/ slice.items = << >>
          THEN /\ call' = [op |-> "channel_mut",
                           arg |-> [channel_index |-> channel_index],
                           ret |-> slice]
               /\ UNCHANGED audio_buffer
          ELSE \E offset \in 0..(Len(slice.items) - 1), value \in WrittenSamples :
                  /\ call' = [op |-> "channel_mut",
                              arg |-> [channel_index |-> channel_index,
                                       offset |-> offset, value |-> value],
                              ret |-> slice]
                  /\ audio_buffer' =
                        Some(WriteThrough(Unwrap(audio_buffer), slice, offset, value))
    /\ UNCHANGED << playing_notes, oscillators, waveform_type, octave_shift,
                    tremolo_enabled, global_time, accumulated_len, snapshot,
                    audio_data, note_state_lock, snapshot_lock, audio_pc,
                    ctl_pc, ctl_event, on_repeated, tremolo_effect, scale,
                    toggle_parity, enabled_built, api_pc, envelope,
                    audio_thread, exit_status, render_i, block_view, generator,
                    voice, accumulated_samples, samples_grid, render_time,
                    locks, create_loop, key_events >>

NextBuffer ==
    \/ BufferChannel
    \/ BufferChannelMut

SpecBuffer == InitBuffer /\ [][NextBuffer]_vars

\* ------------------------------------------------ Oscillator (oscillator.rs)
\* times are whole ticks of one sample period, as the envelope's; samples and
\* levels are in 1/1000; the generator is the f32 one
\* generate_wave is called at most this many times
MaxGenerateWaves == 2
\* num_samples of the longest block generate_wave is asked for
MaxVoiceSamples == 3
\* the frequencies of the voices of the model, in Hz
VoiceFrequencies == {7, 440}
\* envelopes with an attack, without an attack, and with a sustain level of 0
VoiceEnvelopes ==
    {[attack_time |-> 1, decay_time |-> 1, sustain_level |-> 700, release_time |-> 2],
     [attack_time |-> 0, decay_time |-> 1, sustain_level |-> 700, release_time |-> 1],
     [attack_time |-> 1, decay_time |-> 1, sustain_level |-> 0, release_time |-> 1]}

\* Oscillator::new
Oscillator_new(frequency, sample_rate, waveform, note, env) ==
    [waveform_generator |-> WaveformGenerator_new(waveform, frequency, sample_rate),
     envelope |-> env,
     note |-> note,
     start_time |-> None]

\* Oscillator::start_note
Oscillator_start_note(osc, t) == [osc EXCEPT !.start_time = Some(t)]

\* Oscillator::release_note
Oscillator_release_note(osc, current_time) ==
    IF osc.start_time # None
    THEN LET envelope_value ==
                amplitude_at_time(osc.envelope, current_time - Unwrap(osc.start_time))
         IN  IF envelope_value <= 0
             THEN [osc EXCEPT !.start_time = None]
             ELSE osc
    ELSE osc

\* a set_waveform that keeps the phase of the generator it replaces
Oscillator_set_waveform_KeepPhase(osc, waveform) ==
    [osc EXCEPT !.waveform_generator =
        [WaveformGenerator_new(waveform,
            WaveformGenerator_get_frequency(osc.waveform_generator),
            osc.waveform_generator.sample_rate)
         EXCEPT !.phase = osc.waveform_generator.phase]]

\* Oscillator::set_waveform
Oscillator_set_waveform(osc, waveform) ==
    [osc EXCEPT !.waveform_generator =
        WaveformGenerator_new(waveform,
            WaveformGenerator_get_frequency(osc.waveform_generator),
            osc.waveform_generator.sample_rate)]

\* Oscillator::get_frequency
Oscillator_get_frequency(osc) ==
    WaveformGenerator_get_frequency(osc.waveform_generator)

\* Oscillator::get_waveform
Oscillator_get_waveform(osc) ==
    WaveformGenerator_get_waveform(osc.waveform_generator)

\* the position of an LFO: its table index and its sample counter
Cursor(tremolo) ==
    [table_index |-> tremolo.table_index, sample_counter |-> tremolo.sample_counter]

\* the body of the loop of generate_wave for the sample i: prev is the
\* generator, the output and the LFO positions after the samples before i.
\* lfo[i + 1] is the position of the Tremolo that shaped the sample i, before
\* and after its process call
GenerateSample(prev, env, effect, enabled, elapsed, i) ==
    LET s == get_sample(prev.generator)
        envelope_value == amplitude_at_time(env, elapsed + i)
        output_sample == (s.ret * envelope_value) \div SCALE_FACTOR
        rate == get_rate(effect)
        depth == get_depth(effect)
        sample_rate == F32AsUsize(prev.generator.sample_rate)
        tremolo == TremoloNew(rate, depth, sample_rate)
        processed == Tremolo_process(tremolo, output_sample, sample_rate)
    IN  IF prev.panicked \/ s.panicked
        THEN [prev EXCEPT !.panicked = TRUE]
        ELSE IF enabled
        THEN [panicked |-> FALSE,
              generator |-> s.generator,
              output |-> Append(prev.output, processed.ret),
              lfo |-> Append(prev.lfo, [before |-> Cursor(tremolo),
                                        after |-> Cursor(processed.tremolo)])]
        ELSE [panicked |-> FALSE,
              generator |-> s.generator,
              output |-> Append(prev.output, output_sample),
              lfo |-> prev.lfo]

\* the first n rounds of the loop of generate_wave
RECURSIVE GenerateSamples(_, _, _, _, _, _)
GenerateSamples(gen, env, effect, enabled, elapsed, n) ==
    IF n = 0
    THEN [panicked |-> FALSE, generator |-> gen, output |-> << >>, lfo |-> << >>]
    ELSE CHOOSE r \in {GenerateSample(prev, env, effect, enabled, elapsed, n - 1) :
                         prev \in {GenerateSamples(gen, env, effect, enabled,
                                                   elapsed, n - 1)}} : TRUE

\* Oscillator::generate_wave: the output, the LFO positions used and the
\* oscillator after the call; start_time is read, not written
Oscillator_generate_wave(osc, effect, enabled, current_time, num_samples) ==
    LET start_time == IF osc.start_time # None THEN Unwrap(osc.start_time)
                      ELSE current_time
        r == GenerateSamples(osc.waveform_generator, osc.envelope, effect,
                             enabled, current_time - start_time, num_samples)
    IN  [panicked |-> r.panicked,
         output |-> r.output,
         lfo |-> r.lfo,
         oscillator |-> [osc EXCEPT !.waveform_generator = r.generator]]

\* ------------------------------------------- an Oscillator and its caller
\* Oscillator::new(frequency, sample_rate, Sine, "A4", attack, decay, sustain,
\* release, tremolo_effect); the field n of call counts the generate_wave calls
InitOscillator ==
    /\ InitNoteState
    /\ InitControls
    /\ InitThreads
    /\ envelope = MainEnvelope
    /\ audio_thread = "streaming"
    /\ exit_status = None
    /\ generator = None
    /\ audio_buffer = None
    /\ toggle_parity = 0
    /\ tremolo_effect =
          TremoloEffectBuild(MAIN_TREMOLO_RATE, MAIN_TREMOLO_DEPTH, LibSampleRate)
    /\ tremolo_enabled \in BOOLEAN
    /\ enabled_built = tremolo_enabled
    /\ call = [op |-> "new", arg |-> Unit, ret |-> Unit, n |-> 0]
    /\ \E frequency \in VoiceFrequencies, sample_rate \in SampleRates,
          env \in VoiceEnvelopes :
          voice = Some(Oscillator_new(F32(frequency), F32(sample_rate), "Sine",
                                      BUILDER_NOTE, env))

\* voice.start_note(start_time)
OscillatorStartNote ==
    /\ \E start_time \in 0..1 :
          /\ voice' = Some(Oscillator_start_note(Unwrap(voice), start_time))
          /\ call' = [op |-> "start_note", arg |-> [time |-> start_time],
                      ret |-> Unit, n |-> call.n]
    /\ UNCHANGED << playing_notes, oscillators, waveform_type, octave_shift,
                    tremolo_enabled, global_time, accumulated_len, snapshot,
                    audio_data, note_state_lock, snapshot_lock, audio_pc,
                    ctl_pc, ctl_event, on_repeated, tremolo_effect, scale,
                    toggle_parity, enabled_built, api_pc, envelope,
                    audio_thread, exit_status, render_i, block_view, generator,
                    audio_buffer, accumulated_samples, samples_grid, render_time,
                    locks, create_loop, key_events >>

\* voice.release_note(current_time), at the start time or later
OscillatorReleaseNote ==
    /\ \E current_time \in 0..(MaxStage + 2) :
          /\ Unwrap(voice).start_time # None =>
                current_time >= Unwrap(Unwrap(voice).start_time)
          /\ voice' = Some(Oscillator_release_note(Unwrap(voice), current_time))
          /\ call' = [op |-> "release_note", arg |-> [time |-> current_time],
                      ret |-> Unit, n |-> call.n]
    /\ UNCHANGED << playing_notes, oscillators, waveform_type, octave_shift,
                    tremolo_enabled, global_time, accumulated_len, snapshot,
                    audio_data, note_state_lock, snapshot_lock, audio_pc,
                    ctl_pc, ctl_event, on_repeated, tremolo_effect, scale,
                    toggle_parity, enabled_built, api_pc, envelope,
                    audio_thread, exit_status, render_i, block_view, generator,
                    audio_buffer, accumulated_samples, samples_grid, render_time,
                    locks, create_loop, key_events >>

\* voice.set_waveform(waveform)
OscillatorSetWaveform ==
    /\ \E waveform \in Waveforms :
          /\ voice' = Some(Oscillator_set_waveform(Unwrap(voice), waveform))
          /\ call' = [op |-> "set_waveform", arg |-> [waveform |-> waveform],
                      ret |-> Unit, n |-> call.n]
    /\ UNCHANGED << playing_notes, oscillators, waveform_type, octave_shift,
                    tremolo_enabled, global_time, accumulated_len, snapshot,
                    audio_data, note_state_lock, snapshot_lock, audio_pc,
                    ctl_pc, ctl_event, on_repeated, tremolo_effect, scale,
                    toggle_parity, enabled_built, api_pc, envelope,
                    audio_thread, exit_status, render_i, block_view, generator,
                    audio_buffer, accumulated_samples, samples_grid, render_time,
                    locks, create_loop, key_events >>

\* voice.get_waveform()
OscillatorGetWaveform ==
    /\ call' = [op |-> "get_waveform", arg |-> Unit,
                ret |-> [waveform |-> Oscillator_get_waveform(Unwrap(voice))],
                n |-> call.n]
    /\ UNCHANGED << playing_notes, oscillators, waveform_type, octave_shift,
                    tremolo_enabled, global_time, accumulated_len, snapshot,
                    audio_data, note_state_lock, snapshot_lock, audio_pc,
                    ctl_pc, ctl_event, on_repeated, tremolo_effect, scale,
                    toggle_parity, enabled_built, api_pc, envelope,
                    audio_thread, exit_status, render_i, block_view, generator,
                    voice, audio_buffer, accumulated_samples, samples_grid, render_time,
                    locks, create_loop, key_events >>

\* voice.generate_wave(current_time, num_samples), at the start time or later
OscillatorGenerateWave ==
    /\ call.n < MaxGenerateWaves
    /\ \E current_time \in 0..2, num_samples \in {1, MaxVoiceSamples} :
       /\ Unwrap(voice).start_time # None =>
             current_time >= Unwrap(Unwrap(voice).start_time)
       /\ \E r \in {Oscillator_generate_wave(Unwrap(voice), tremolo_effect,
                       tremolo_enabled, current_time, num_samples)} :
          /\ voice' = Some(r.oscillator)
          /\ call' = [op |-> "generate_wave",
                      arg |-> [time |-> current_time, num_samples |-> num_samples],
                      ret |-> IF r.panicked THEN [panic |-> TRUE]
                              ELSE [output |-> r.output, lfo |-> r.lfo],
                      n |-> call.n + 1]
    /\ UNCHANGED << playing_notes, oscillators, waveform_type, octave_shift,
                    tremolo_enabled, global_time, accumulated_len, snapshot,
                    audio_data, note_state_lock, snapshot_lock, audio_pc,
                    ctl_pc, ctl_event, on_repeated, tremolo_effect, scale,
                    toggle_parity, enabled_built, api_pc, envelope,
                    audio_thread, exit_status, render_i, block_view, generator,
                    audio_buffer, accumulated_samples, samples_grid, render_time,
                    locks, create_loop, key_events >>

NextOscillator ==
    \/ OscillatorStartNote
    \/ OscillatorReleaseNote
    \/ OscillatorSetWaveform
    \/ OscillatorGetWaveform
    \/ OscillatorGenerateWave

SpecOscillator == InitOscillator /\ [][NextOscillator]_vars

\* ------------------------------------- a Tremolo run through a whole table
\* the rates of the LFOs, in 1/1000 Hz: at LibSampleRate they give cycles of
\* 0, 1, 2 and 5 samples
LfoRates == {20000, 10000, 5000, 2000}

\* TremoloEffect::builder().rate(r).depth(0.5).enabled(true).build(sample_rate);
\* the field n of call counts the process calls
InitLfo ==
    /\ InitNoteState
    /\ InitControls
    /\ InitThreads
    /\ envelope = MainEnvelope
    /\ audio_thread = "streaming"
    /\ exit_status = None
    /\ generator = None
    /\ voice = None
    /\ audio_buffer = None
    /\ toggle_parity = 0
    /\ tremolo_enabled = TRUE
    /\ enabled_built = TRUE
    /\ \E r \in LfoRates :
          tremolo_effect = TremoloEffectBuild(r, MAIN_TREMOLO_DEPTH, LibSampleRate)
    /\ call = [op |-> "new", arg |-> Unit, ret |-> Unit, n |-> 0]

\* effect.process(sample, sample_rate) of the enabled effect, which calls
\* Tremolo::process; the calls stop one call after the table index has gone
\* through the whole table
LfoProcess ==
    /\ call.n <= TREMOLO_TABLE_SIZE
                    * Max(tremolo_effect.tremolo.samples_per_tremolo_cycle, 1)
    /\ \E sample \in Samples :
       \E r \in {TremoloEffect_process(tremolo_effect, tremolo_enabled, sample,
                                       LibSampleRate)} :
          /\ tremolo_effect' = r.effect
          /\ call' = [op |-> "process", arg |-> [sample |-> sample],
                      ret |-> [sample |-> r.ret], n |-> call.n + 1]
    /\ UNCHANGED << playing_notes, oscillators, waveform_type, octave_shift,
                    tremolo_enabled, global_time, accumulated_len, snapshot,
                    audio_data, note_state_lock, snapshot_lock, audio_pc,
                    ctl_pc, ctl_event, on_repeated, scale, toggle_parity,
                    enabled_built, api_pc, envelope, audio_thread, exit_status,
                    render_i, block_view, generator, voice, audio_buffer,
                    accumulated_samples, samples_grid, render_time,
                    locks, create_loop, key_events >>

NextLfo == LfoProcess

SpecLfo == InitLfo /\ [][NextLfo]_vars

\* ------------------------------------------- keystrokes, one event at a time
\* the event loop handles one KeyboardInput event from the lock of note_state
\* to the drop of its guard; `call` keeps the last event and the octave shift
\* and tremolo flag the handler found
KeyEvent(state, ka) ==
    /\ ctl_pc = "idle"
    /\ note_state_lock = "free"
    /\ HandleKey(state, ka)
    /\ call' = [op |-> state,
                arg |-> ka,
                ret |-> [octave_shift |-> octave_shift,
                         tremolo_enabled |-> tremolo_enabled]]
    /\ UNCHANGED << oscillators, global_time, accumulated_len, snapshot,
                    audio_data, note_state_lock, snapshot_lock, audio_pc,
                    ctl_pc, scale, enabled_built, api_pc, envelope,
                    audio_thread, exit_status, render_i, block_view, generator,
                    voice, audio_buffer, accumulated_samples, samples_grid,
                    render_time, locks, create_loop, key_events >>

\* the event loop before the first key event
InitKeystroke ==
    /\ InitNoteState
    /\ InitControls
    /\ InitMainTremolo
    /\ InitThreads
    /\ call = [op |-> "None",
               arg |-> [action |-> "None", arg |-> "None"],
               ret |-> [octave_shift |-> octave_shift,
                        tremolo_enabled |-> tremolo_enabled]]
    /\ generator = None
    /\ voice = None
    /\ audio_buffer = None
    /\ envelope = MainEnvelope
    /\ audio_thread = "streaming"
    /\ exit_status = None

\* a key goes down (or repeats)
KeyPressed == \E ka \in KeyActions : KeyEvent("Pressed", ka)

\* a key goes up
KeyReleased == \E ka \in KeyActions : KeyEvent("Released", ka)

NextKeystroke ==
    \/ KeyPressed
    \/ KeyReleased

SpecKeystroke == InitKeystroke /\ [][NextKeystroke]_vars

\* ------------------------------ both threads, one step per lock acquisition
\* lock l is held by who
Held(l, who) == [locks EXCEPT ![l] = who]

\* the creation loop's test on one playing_notes entry
NeedsVoice(note) ==
    /\ playing_notes[note]
    /\ ~ \E k \in 1..Len(oscillators) : oscillators[k].note = note

\* octave_shift.read() returns once no writer holds the RwLock
AudioReadOctaveShift ==
    /\ audio_pc = "synth"
    /\ locks["octave_shift"] = "free"
    /\ locks' = Held("octave_shift", "audio")
    /\ audio_pc' = "retain"
    /\ UNCHANGED << playing_notes, oscillators, waveform_type, octave_shift,
                    tremolo_enabled, global_time, accumulated_len, snapshot,
                    audio_data, note_state_lock, snapshot_lock, ctl_pc,
                    ctl_event, on_repeated, tremolo_effect, scale,
                    toggle_parity, enabled_built, call, api_pc, envelope,
                    audio_thread, exit_status, render_i, block_view, generator,
                    voice, audio_buffer, accumulated_samples, samples_grid,
                    render_time, create_loop,
                    key_events >>

\* the clock is read and advanced, the voices of released notes are dropped,
\* the creation loop starts over the entries of playing_notes
AudioRetain ==
    /\ audio_pc = "retain"
    /\ global_time' = global_time + BlockLen
    /\ oscillators' = Retain(oscillators, playing_notes)
    /\ create_loop' = [todo |-> DOMAIN playing_notes, note |-> None]
    /\ audio_pc' = "create"
    /\ UNCHANGED << playing_notes, waveform_type, octave_shift,
                    tremolo_enabled, accumulated_len, snapshot, audio_data,
                    note_state_lock, snapshot_lock, ctl_pc, ctl_event,
                    on_repeated, tremolo_effect, scale, toggle_parity,
                    enabled_built, call, api_pc, envelope, audio_thread,
                    exit_status, render_i, block_view, generator, voice,
                    audio_buffer, accumulated_samples, samples_grid,
                    render_time, locks,
                    key_events >>

\* an entry that is not playing or has a voice already
AudioSkipNote ==
    /\ audio_pc = "create"
    /\ \E note \in create_loop.todo :
          /\ ~ NeedsVoice(note)
          /\ create_loop' = [create_loop EXCEPT !.todo = @ \ {note}]
    /\ UNCHANGED << playing_notes, oscillators, waveform_type, octave_shift,
                    tremolo_enabled, global_time, accumulated_len, snapshot,
                    audio_data, note_state_lock, snapshot_lock, audio_pc,
                    ctl_pc, ctl_event, on_repeated, tremolo_effect, scale,
                    toggle_parity, enabled_built, call, api_pc, envelope,
                    audio_thread, exit_status, render_i, block_view, generator,
                    voice, audio_buffer, accumulated_samples, samples_grid,
                    render_time, locks,
                    key_events >>

\* an entry that needs a voice: scale.lock() returns once the mutex is free
AudioLockScale ==
    /\ audio_pc = "create"
    /\ locks["scale"] = "free"
    /\ \E note \in create_loop.todo :
          /\ NeedsVoice(note)
          /\ create_loop' = [todo |-> create_loop.todo \ {note},
                             note |-> Some(note)]
    /\ locks' = Held("scale", "audio")
    /\ audio_pc' = "build"
    /\ UNCHANGED << playing_notes, oscillators, waveform_type, octave_shift,
                    tremolo_enabled, global_time, accumulated_len, snapshot,
                    audio_data, note_state_lock, snapshot_lock, ctl_pc,
                    ctl_event, on_repeated, tremolo_effect, scale,
                    toggle_parity, enabled_built, call, api_pc, envelope,
                    audio_thread, exit_status, render_i, block_view, generator,
                    voice, audio_buffer, accumulated_samples, samples_grid,
                    render_time,
                    key_events >>

\* under the scale guard: the frequency, waveform_type.read() for the builder,
\* start_note at the block's time, the voice joins the pool, the guard is
\* dropped
AudioBuildVoice ==
    /\ audio_pc = "build"
    /\ calculate_frequency(Unwrap(create_loop.note)) # None
          => locks["waveform_type"] = "free"
    /\ oscillators' = CreateVoices(oscillators, << Unwrap(create_loop.note) >>, 1,
                          playing_notes, octave_shift, waveform_type,
                          global_time - BlockLen)
    /\ create_loop' = [create_loop EXCEPT !.note = None]
    /\ locks' = Held("scale", "free")
    /\ audio_pc' = "create"
    /\ UNCHANGED << playing_notes, waveform_type, octave_shift,
                    tremolo_enabled, global_time, accumulated_len, snapshot,
                    audio_data, note_state_lock, snapshot_lock, ctl_pc,
                    ctl_event, on_repeated, tremolo_effect, scale,
                    toggle_parity, enabled_built, call, api_pc, envelope,
                    audio_thread, exit_status, render_i, block_view, generator,
                    voice, audio_buffer, accumulated_samples, samples_grid,
                    render_time,
                    key_events >>

\* every entry was visited: the per-voice loop starts
AudioCreateDone ==
    /\ audio_pc = "create"
    /\ create_loop.todo = {}
    /\ create_loop' = NoLoop
    /\ render_i' = 1
    /\ audio_pc' = "render"
    /\ UNCHANGED << playing_notes, oscillators, waveform_type, octave_shift,
                    tremolo_enabled, global_time, accumulated_len, snapshot,
                    audio_data, note_state_lock, snapshot_lock, ctl_pc,
                    ctl_event, on_repeated, tremolo_effect, scale,
                    toggle_parity, enabled_built, call, api_pc, envelope,
                    audio_thread, exit_status, block_view, generator, voice,
                    audio_buffer, accumulated_samples, samples_grid,
                    render_time, locks,
                    key_events >>

\* waveform_type.read() of the per-voice loop returns once no writer holds
\* the RwLock
AudioReadWaveformType ==
    /\ audio_pc = "render"
    /\ render_i <= Len(oscillators)
    /\ locks["waveform_type"] = "free"
    /\ locks' = Held("waveform_type", "audio")
    /\ audio_pc' = "voice"
    /\ UNCHANGED << playing_notes, oscillators, waveform_type, octave_shift,
                    tremolo_enabled, global_time, accumulated_len, snapshot,
                    audio_data, note_state_lock, snapshot_lock, ctl_pc,
                    ctl_event, on_repeated, tremolo_effect, scale,
                    toggle_parity, enabled_built, call, api_pc, envelope,
                    audio_thread, exit_status, render_i, block_view, generator,
                    voice, audio_buffer, accumulated_samples, samples_grid,
                    render_time, create_loop,
                    key_events >>

\* the hot-swap under the read guard, the guard is dropped, generate_wave
AudioVoice ==
    /\ audio_pc = "voice"
    /\ oscillators' = [oscillators EXCEPT
                          ![render_i] = RenderVoice(@, waveform_type, BlockLen)]
    /\ render_i' = render_i + 1
    /\ render_time' = Some(global_time)
    /\ locks' = Held("waveform_type", "free")
    /\ audio_pc' = "render"
    /\ UNCHANGED << playing_notes, waveform_type, octave_shift,
                    tremolo_enabled, global_time, accumulated_len, snapshot,
                    audio_data, note_state_lock, snapshot_lock, ctl_pc,
                    ctl_event, on_repeated, tremolo_effect, scale,
                    toggle_parity, enabled_built, call, api_pc, envelope,
                    audio_thread, exit_status, block_view, generator, voice,
                    audio_buffer, accumulated_samples, samples_grid,
                    create_loop,
                    key_events >>

\* a block end that leaks the octave_shift read guard
AudioDropGuards_KeepsOctaveShift ==
    /\ audio_pc = "render"
    /\ render_i > Len(oscillators)
    /\ note_state_lock' = "free"
    /\ render_i' = 0
    /\ audio_pc' = "decimate"
    /\ UNCHANGED << playing_notes, oscillators, waveform_type, octave_shift,
                    tremolo_enabled, global_time, accumulated_len, snapshot,
                    audio_data, snapshot_lock, ctl_pc, ctl_event, on_repeated,
                    tremolo_effect, scale, toggle_parity, enabled_built, call,
                    api_pc, envelope, audio_thread, exit_status, block_view,
                    generator, voice, audio_buffer, accumulated_samples,
                    samples_grid, render_time, locks, create_loop, key_events >>

\* the per-voice loop is over: the octave_shift read guard and the note_state
\* guard are dropped
AudioDropGuards ==
    /\ audio_pc = "render"
    /\ render_i > Len(oscillators)
    /\ locks' = Held("octave_shift", "free")
    /\ note_state_lock' = "free"
    /\ render_i' = 0
    /\ audio_pc' = "decimate"
    /\ UNCHANGED << playing_notes, oscillators, waveform_type, octave_shift,
                    tremolo_enabled, global_time, accumulated_len, snapshot,
                    audio_data, snapshot_lock, ctl_pc, ctl_event, on_repeated,
                    tremolo_effect, scale, toggle_parity, enabled_built, call,
                    api_pc, envelope, audio_thread, exit_status, block_view,
                    generator, voice, audio_buffer, accumulated_samples,
                    samples_grid, render_time, create_loop,
                    key_events >>

\* the lock the arm of the match for this key event takes first
FirstLock(state, ka) ==
    CASE ka.action = "ChangeOctave" -> "write_octave_shift"
      [] ka.action = "ChangeWaveform" /\ state = "Pressed" -> "lock_waveform_type"
      [] ka.action = "ToggleTremolo" -> "lock_tremolo_effect"
      [] OTHER -> "unlock"

\* under the note_state guard: the key's state and keycode_to_action pick the
\* arm of the match; note_on, note_off and the ignored keys take no lock
CtlMatchEvent ==
    /\ ctl_pc = "handle"
    /\ \E state \in {"Pressed", "Released"}, ka \in KeyActions :
          /\ ctl_pc' = FirstLock(state, ka)
          /\ IF ctl_pc' = "unlock"
             THEN HandleKey(state, ka)
             ELSE /\ ctl_event' = [state |-> state, action |-> ka.action,
                                   arg |-> ka.arg]
                  /\ UNCHANGED << playing_notes, on_repeated, octave_shift,
                                  waveform_type, tremolo_enabled,
                                  tremolo_effect, toggle_parity >>
    /\ UNCHANGED << oscillators, global_time, accumulated_len, snapshot,
                    audio_data, note_state_lock, snapshot_lock, audio_pc,
                    scale, enabled_built, call, api_pc, envelope, audio_thread,
                    exit_status, render_i, block_view, generator, voice,
                    audio_buffer, accumulated_samples, samples_grid,
                    render_time, locks, create_loop, key_events >>

\* the key event the handler is in
EventKey == [action |-> ctl_event.action, arg |-> ctl_event.arg]

\* octave_shift.write() returns once no reader or writer holds the RwLock;
\* the shift is changed and the guard dropped
CtlWriteOctaveShift ==
    /\ ctl_pc = "write_octave_shift"
    /\ locks["octave_shift"] = "free"
    /\ HandleKey(ctl_event.state, EventKey)
    /\ ctl_pc' = "unlock"
    /\ UNCHANGED << oscillators, global_time, accumulated_len, snapshot,
                    audio_data, note_state_lock, snapshot_lock, audio_pc,
                    scale, enabled_built, call, api_pc, envelope, audio_thread,
                    exit_status, render_i, block_view, generator, voice,
                    audio_buffer, accumulated_samples, samples_grid,
                    render_time, locks, create_loop, key_events >>

\* handle_event: waveform_type.lock() returns once the lock is free; the
\* selection is stored and the guard dropped
CtlLockWaveformType ==
    /\ ctl_pc = "lock_waveform_type"
    /\ locks["waveform_type"] = "free"
    /\ HandleKey(ctl_event.state, EventKey)
    /\ ctl_pc' = "unlock"
    /\ UNCHANGED << oscillators, global_time, accumulated_len, snapshot,
                    audio_data, note_state_lock, snapshot_lock, audio_pc,
                    scale, enabled_built, call, api_pc, envelope, audio_thread,
                    exit_status, render_i, block_view, generator, voice,
                    audio_buffer, accumulated_samples, samples_grid,
                    render_time, locks, create_loop, key_events >>

\* handle_event: tremolo_effect.lock() returns once the mutex is free
CtlLockTremoloEffect ==
    /\ ctl_pc = "lock_tremolo_effect"
    /\ locks["tremolo_effect"] = "free"
    /\ locks' = Held("tremolo_effect", "ctl")
    /\ ctl_pc' = "toggle"
    /\ UNCHANGED << playing_notes, oscillators, waveform_type, octave_shift,
                    tremolo_enabled, global_time, accumulated_len, snapshot,
                    audio_data, note_state_lock, snapshot_lock, audio_pc,
                    ctl_event, on_repeated, tremolo_effect, scale,
                    toggle_parity, enabled_built, call, api_pc, envelope,
                    audio_thread, exit_status, render_i, block_view, generator,
                    voice, audio_buffer, accumulated_samples, samples_grid,
                    render_time, create_loop,
                    key_events >>

\* TremoloEffect::toggle under the tremolo_effect guard: the flag is flipped;
\* when it was set, tremolo.lock() returns once the mutex is free and the LFO
\* is reset; both guards are dropped
CtlToggle ==
    /\ ctl_pc = "toggle"
    /\ tremolo_enabled => locks["tremolo"] = "free"
    /\ HandleKey(ctl_event.state, EventKey)
    /\ locks' = Held("tremolo_effect", "free")
    /\ ctl_pc' = "unlock"
    /\ UNCHANGED << oscillators, global_time, accumulated_len, snapshot,
                    audio_data, note_state_lock, snapshot_lock, audio_pc,
                    scale, enabled_built, call, api_pc, envelope, audio_thread,
                    exit_status, render_i, block_view, generator, voice,
                    audio_buffer, accumulated_samples, samples_grid,
                    render_time, create_loop,
                    key_events >>

\* a non-synthetic KeyboardInput event arrives and is counted
KeyArrives ==
    /\ ctl_pc = "idle"
    /\ key_events < MaxKeyEvents
    /\ key_events' = key_events + 1
    /\ ctl_pc' = "lock_note_state"
    /\ UNCHANGED << playing_notes, oscillators, waveform_type, octave_shift,
                    tremolo_enabled, global_time, accumulated_len, snapshot,
                    audio_data, note_state_lock, snapshot_lock, audio_pc,
                    ctl_event, on_repeated, tremolo_effect, scale,
                    toggle_parity, enabled_built, call, api_pc, envelope,
                    audio_thread, exit_status, render_i, block_view, generator,
                    voice, audio_buffer, accumulated_samples, samples_grid,
                    render_time, locks, create_loop >>

\* the steps of a started audio callback
AudioRun ==
    \/ AudioLockNoteState
    \/ AudioReadOctaveShift
    \/ AudioRetain
    \/ AudioSkipNote
    \/ AudioLockScale
    \/ AudioBuildVoice
    \/ AudioCreateDone
    \/ AudioReadWaveformType
    \/ AudioVoice
    \/ AudioDropGuards
    \/ AudioDecimate
    \/ AudioLockSnapshot
    \/ AudioPublish

\* the steps of a started event handler
CtlRun ==
    \/ CtlLockNoteState
    \/ CtlMatchEvent
    \/ CtlWriteOctaveShift
    \/ CtlLockWaveformType
    \/ CtlLockTremoloEffect
    \/ CtlToggle
    \/ CtlUnlock
    \/ CtlLockSnapshot
    \/ CtlCopySnapshot

NextLocks ==
    \/ AudioCallback
    \/ AudioRun
    \/ KeyArrives
    \/ RedrawRequested
    \/ CtlRun

SpecLocks == Init /\ [][NextLocks]_vars

\* each thread is scheduled, and a thread blocked in lock(), read() or write()
\* is granted a lock that is free again and again; the host's callbacks and
\* the window's events may stop coming
SpecLocksLive == SpecLocks /\ SF_vars(AudioRun) /\ SF_vars(CtlRun)

\* ------------------------------------------------------------ properties
\* the step in which the audio callback reconciles the pool and renders a block
SynthStep == audio_pc = "synth" /\ audio_pc' = "decimate"

\* the step in which the key handler applies a ChangeOctave event
OctaveStep(direction) ==
    /\ ctl_pc = "handle" /\ ctl_pc' = "unlock"
    /\ ctl_event'.action = "ChangeOctave"
    /\ ctl_event'.arg = direction

\* the step in which the key handler applies the press of the key of note n
NoteOnStep(n) ==
    /\ ctl_pc = "handle" /\ ctl_pc' = "unlock"
    /\ ctl_event' = [state |-> "Pressed", action |-> "On", arg |-> n]

\* the voice sounds note n: its frequency is the one resolved for n, at some
\* octave shift
SoundsNote(osc, n) ==
    /\ calculate_frequency(n) # None
    /\ \E k \in OCTAVE_MIN..OCTAVE_MAX :
          osc.waveform_generator.frequency
              = ShiftOctaves(Unwrap(calculate_frequency(n)), k)

\* the playing-notes map without the entry of note u
Without(map, u) == [n \in (DOMAIN map) \ {u} |-> map[n]]

\* C1: the voice pool never holds two oscillators with the same note key.
C1_OneOscillatorPerNoteKey ==
    \A i, j \in 1..Len(oscillators) :
        oscillators[i].note = oscillators[j].note => i = j

\* C2: after the reconciliation of every audio block, the note key of every
\* oscillator in the pool is flagged playing in playing_notes.
C2_PoolSubsetOfPlaying ==
    [][SynthStep =>
        \A i \in 1..Len(oscillators') :
            IsPlaying(playing_notes', oscillators'[i].note)]_vars

\* C3: a note whose flag is false at an audio block (its note-off was handled
\* and no note-on followed) has no oscillator sounding it after that block,
\* whichever other notes are flagged playing.
C3_OffRemovesVoice ==
    [][SynthStep =>
        \A n \in DOMAIN playing_notes :
            ~ playing_notes[n] =>
                \A i \in 1..Len(oscillators') : ~ SoundsNote(oscillators'[i], n)]_vars

\* C4: a voice created in the previous block for a note that is still flagged
\* playing at this block is still in the pool after it, with the same
\* start_time and frequency, and with its phase advanced, not reset, unless
\* its waveform was switched.
C4_VoicePersistsWhilePlaying ==
    [][SynthStep =>
        \A i \in 1..Len(oscillators) :
            ( /\ oscillators[i].start_time = Some(global_time - BlockLen)
              /\ \E n \in DOMAIN playing_notes :
                    playing_notes[n] /\ SoundsNote(oscillators[i], n) )
            => \E j \in 1..Len(oscillators') :
                  /\ oscillators'[j].start_time = oscillators[i].start_time
                  /\ oscillators'[j].waveform_generator.frequency
                        = oscillators[i].waveform_generator.frequency
                  /\ (get_waveform(oscillators[i]) = waveform_type =>
                        oscillators'[j].waveform_generator
                            = AdvancePhase(oscillators[i].waveform_generator,
                                           BlockLen))]_vars

\* C5: handling the note-on of a note that is already flagged playing leaves
\* playing_notes as it was, and after every later audio block (until a
\* note-off of the note) the pool holds at most one oscillator sounding it.
C5_NoteOnIdempotent ==
    [][ /\ \A n \in Notes :
              NoteOnStep(n) /\ IsPlaying(playing_notes, n)
                  => playing_notes' = playing_notes
        /\ SynthStep =>
              \A n \in on_repeated :
                  Cardinality({i \in 1..Len(oscillators') :
                                  SoundsNote(oscillators'[i], n)}) <= 1 ]_vars

\* C6: the octave shift stays within [-2, 2], an "up" event raises it by one
\* saturating at +2 and a "down" event lowers it by one saturating at -2, so
\* four consecutive "up" events from any value leave it at +2 (and "down" at
\* -2); every voice is built with an octave shift within [-2, 2].
C6_OctaveClamped ==
    [][ /\ octave_shift' \in (0 - 2)..2
        /\ OctaveStep("up") =>
              octave_shift' = (IF octave_shift < 2 THEN octave_shift + 1 ELSE 2)
        /\ OctaveStep("down") =>
              octave_shift' = (IF octave_shift > 0 - 2 THEN octave_shift - 1 ELSE 0 - 2)
        /\ LET Up(x) == ChangeOctaveShift(x, "up")
               Down(x) == ChangeOctaveShift(x, "down")
           IN  /\ Up(Up(Up(Up(octave_shift)))) = 2
               /\ Up(Up(Up(Up(Up(octave_shift))))) = 2
               /\ Down(Down(Down(Down(octave_shift)))) = 0 - 2
               /\ Down(Down(Down(Down(Down(octave_shift))))) = 0 - 2
        /\ SynthStep =>
              \A i \in 1..Len(oscillators') :
                  \E n \in Notes, k \in (0 - 2)..2 :
                      /\ calculate_frequency(n) # None
                      /\ oscillators'[i].waveform_generator.frequency
                            = Unwrap(calculate_frequency(n)) + 12 * k ]_vars

\* an "up" event has been applied with the shift at +2 afterwards, and the
\* pool holds a voice built two octaves up
C6_Witness ==
    /\ ctl_pc = "unlock"
    /\ ctl_event.action = "ChangeOctave"
    /\ ctl_event.arg = "up"
    /\ octave_shift = 2
    /\ \E i \in 1..Len(oscillators), n \in Notes :
          /\ calculate_frequency(n) # None
          /\ oscillators[i].waveform_generator.frequency
                = Unwrap(calculate_frequency(n)) + 24

\* C7: a note flagged playing that calculate_frequency does not recognise
\* leaves the block's outcome as it would be without that note in the map:
\* no oscillator is created for it and the others are created, kept and
\* retired as if it were absent.
C7_UnknownNoteIgnored ==
    [][SynthStep =>
        \A u \in DOMAIN playing_notes :
            (playing_notes[u] /\ calculate_frequency(u) = None) =>
                oscillators' \in
                    {BlockOscillators(oscillators, ord, Without(playing_notes, u),
                                      octave_shift, waveform_type, global_time,
                                      BlockLen) :
                        ord \in Orders((DOMAIN playing_notes) \ {u})}]_vars

\* C8: the frequency of a note is 440 * 2^((index - 9)/12), index being its
\* position in NOTE_SEQUENCE, so the note "A" is 440 Hz.
C8_FrequencyFromIndexMinus9 ==
    \A n \in DOMAIN playing_notes :
        position(to_uppercase(n)) # None =>
            /\ calculate_frequency(n) = Some(Unwrap(position(to_uppercase(n))) - 9)
            /\ (to_uppercase(n) = "A" => calculate_frequency(n) = Some(0))

\* C9: the audio callback is never waiting for the note_state mutex while the
\* key handler holds it.
C9_AudioNeverWaitsForKeyHandler ==
    ~ (audio_pc = "lock_note_state" /\ note_state_lock = "ctl")

\* C10: the audio callback is never waiting to publish the snapshot while the
\* redraw handler holds the snapshot to read it.
C10_PublishNeverWaitsForReader ==
    ~ (audio_pc = "lock_snapshot" /\ snapshot_lock = "ctl")

\* the grids a finished publish, or no publish yet, leaves in the snapshot
CompleteGrids == {0} \cup {PublishedCells(n) : n \in DownsampleFactor..MaxSamples}

\* the event loop copies the snapshot
CopyStep == ctl_pc = "copy" /\ ctl_pc' = "idle"

\* C11: whenever the render consumer copies the snapshot grid, no publish is
\* in progress (the grid is neither zeroed-but-unfilled nor partly filled)
\* and the copy it takes is a complete grid
C11_ConsumerCopiesCompleteGrid ==
    [][CopyStep =>
          /\ audio_pc \notin {"publish", "fill"}
          /\ snapshot_lock = "ctl"
          /\ audio_data' \in CompleteGrids
          /\ audio_data' = snapshot]_vars

\* the consumer waits for the snapshot mutex while the producer has written
\* some of the cells of its publish, but not all
C11_Witness ==
    /\ ctl_pc = "lock_snapshot"
    /\ audio_pc = "fill"
    /\ snapshot_lock = "audio"
    /\ 0 < snapshot
    /\ snapshot < PublishedCells(accumulated_len)

\* the audio callback is inside its block
InBlock == audio_pc \in {"synth", "render"}

\* the block ends
BlockEndStep == audio_pc = "render" /\ audio_pc' = "decimate"

\* C13: while an audio block runs no step changes the playing notes, the
\* waveform selection, the octave shift or the tremolo flag, and when the
\* block ends every step of it has read the same control values and every
\* voice carries the one waveform selection of the block
C13_BlockSeesOneControlView ==
    [][/\ InBlock =>
            UNCHANGED << playing_notes, waveform_type, octave_shift,
                         tremolo_enabled >>
       /\ BlockEndStep =>
            /\ block_view = {ControlView}
            /\ \A k \in 1..Len(oscillators) :
                  get_waveform(oscillators[k]) = waveform_type]_vars

\* a key event arrived while the block had rendered one of its two voices:
\* its handler waits for the note_state mutex
C13_Witness ==
    /\ audio_pc = "render"
    /\ Len(oscillators) = 2
    /\ render_i = 2
    /\ ctl_pc = "lock_note_state"
    /\ note_state_lock = "audio"

\* C12: a step that is not the audio callback's (the sample clock does not
\* move) leaves the oscillator collection, and with it every oscillator's
\* frequency, waveform, phase and start_time, unchanged
C12_OnlyAudioCallbackChangesOscillators ==
    [][global_time' = global_time => oscillators' = oscillators]_vars

\* C14: once building or starting the output stream has failed, a process
\* that has terminated has reported that error, never a success status
C14_StreamFailureIsReported ==
    (audio_thread = "failed" /\ exit_status # None)
        => exit_status = Some("stream_error")

\* C15: set_depth(d) makes get_depth() return d and leaves get_rate()
\* unchanged; set_rate(r) makes get_rate() return r and leaves get_depth()
\* unchanged
C15_SettersIndependent ==
    [][/\ call'.op = "set_depth" =>
            /\ get_depth(tremolo_effect') = call'.arg
            /\ get_rate(tremolo_effect') = get_rate(tremolo_effect)
       /\ call'.op = "set_rate" =>
            /\ get_rate(tremolo_effect') = call'.arg
            /\ get_depth(tremolo_effect') = get_depth(tremolo_effect)]_vars

\* C16: with tremolo disabled, process(s, r) returns s and leaves the LFO
\* table index and sample counter (the whole effect) as they were
C16_DisabledProcessIsIdentity ==
    [][(call'.op = "process" /\ ~ tremolo_enabled) =>
          /\ call'.ret = call'.arg.sample
          /\ tremolo_effect'.tremolo.table_index = tremolo_effect.tremolo.table_index
          /\ tremolo_effect'.tremolo.sample_counter =
                tremolo_effect.tremolo.sample_counter
          /\ tremolo_effect' = tremolo_effect]_vars

\* a disabled effect has processed a full-scale sample
C16_Witness ==
    /\ call.op = "process"
    /\ ~ tremolo_enabled
    /\ call.arg.sample = 1000
    /\ call.ret = 1000
    /\ toggle_parity = 1

\* C17: after an even number of toggle() calls the enabled flag has the value
\* it was built with, whichever value that was and whatever loads of the flag
\* the audio thread makes in between
C17_ToggleTwiceRestores ==
    toggle_parity = 0 => tremolo_enabled = enabled_built

\* the last call was a toggle that returned, the number of toggles is even
\* (so at least two), and the flag is the one the effect was built with
C17_Witness ==
    /\ call.op = "toggle"
    /\ api_pc = "idle"
    /\ toggle_parity = 0
    /\ tremolo_enabled = enabled_built

\* a toggle() call that finds the flag false and sets it
ToggleEnables ==
    call'.op = "toggle" /\ ~ tremolo_enabled /\ tremolo_enabled'

\* C18: right after a toggle() that changes tremolo from disabled to enabled
\* the LFO table index and the sample counter are both 0
C18_EnableStartsAtZero ==
    [][ToggleEnables =>
          /\ tremolo_effect'.tremolo.table_index = 0
          /\ tremolo_effect'.tremolo.sample_counter = 0]_vars

\* an effect built enabled was disabled and has just been enabled again
C18_Witness ==
    /\ call.op = "toggle"
    /\ enabled_built
    /\ tremolo_enabled
    /\ toggle_parity = 0
    /\ api_pc = "idle"
    /\ tremolo_effect.tremolo.table_index = 0
    /\ tremolo_effect.tremolo.sample_counter = 0

\* C19 as stated: for every envelope with non-negative times,
\* amplitude_at_time(0) = 0 when attack > 0, amplitude_at_time(attack) = 1,
\* amplitude_at_time(attack + decay) = sustain_level and
\* amplitude_at_time(attack + decay + release) = 0
C19_StageBoundaries_AnyDurations ==
    call.op = "amplitude_at_time" =>
        LET attack == envelope.attack_time
            decay == envelope.decay_time
            release == envelope.release_time
        IN  /\ (call.arg = 0 /\ attack > 0) => call.ret = 0
            /\ call.arg = attack => call.ret = UNITY
            /\ call.arg = attack + decay => call.ret = envelope.sustain_level
            /\ call.arg = attack + decay + release => call.ret = 0

\* C19: amplitude_at_time(0) = 0 when attack > 0, amplitude_at_time(attack)
\* = 1 when decay > 0, amplitude_at_time(attack + decay) = sustain_level
\* when release > 0, and amplitude_at_time(attack + decay + release) = 0
C19_StageBoundaries ==
    call.op = "amplitude_at_time" =>
        LET attack == envelope.attack_time
            decay == envelope.decay_time
            release == envelope.release_time
        IN  /\ (call.arg = 0 /\ attack > 0) => call.ret = 0
            /\ (call.arg = attack /\ decay > 0) => call.ret = UNITY
            /\ (call.arg = attack + decay /\ release > 0) =>
                  call.ret = envelope.sustain_level
            /\ call.arg = attack + decay + release => call.ret = 0

\* an envelope with three stages of positive length, sampled at the end of
\* its decay: the amplitude is the sustain level
C19_Witness ==
    /\ call.op = "amplitude_at_time"
    /\ envelope.attack_time > 0
    /\ envelope.decay_time > 0
    /\ envelope.release_time > 0
    /\ envelope.sustain_level = 700
    /\ call.arg = envelope.attack_time + envelope.decay_time
    /\ call.ret = 700

\* the stage of the envelope a time falls in
Stage(env, time) ==
    IF time < env.attack_time THEN "attack"
    ELSE IF time < env.attack_time + env.decay_time THEN "decay"
    ELSE IF time < env.attack_time + env.decay_time + env.release_time
    THEN "release"
    ELSE "finished"

\* C20: of two successive samples of the envelope taken in the same stage,
\* the later in time is not lower in the attack stage and not higher in the
\* decay and release stages; a sample at or after attack + decay + release is 0
C20_MonotoneWithinStages ==
    [][(call.op = "amplitude_at_time" /\ call'.op = "amplitude_at_time") =>
          /\ (/\ Stage(envelope, call.arg) = Stage(envelope, call'.arg)
              /\ call.arg <= call'.arg) =>
                 /\ Stage(envelope, call.arg) = "attack" => call.ret <= call'.ret
                 /\ Stage(envelope, call.arg) \in {"decay", "release"} =>
                       call.ret >= call'.ret
          /\ Stage(envelope, call'.arg) = "finished" => call'.ret = 0]_vars

\* a sample inside a decay stage, strictly between the sustain level and 1.0
C20_Witness ==
    /\ call.op = "amplitude_at_time"
    /\ Stage(envelope, call.arg) = "decay"
    /\ call.arg > envelope.attack_time
    /\ call.ret < UNITY
    /\ call.ret > envelope.sustain_level

\* C21: for every frequency and every sample rate above 0, after any number
\* of get_sample calls the generator's phase is in [0,1) and every sample
\* get_sample returned is in [-1,1]
C21_PhaseAndSamplesInRange ==
    generator # None =>
        /\ F32InUnitInterval(Unwrap(generator).phase)
        /\ call.op = "get_sample" =>
              /\ call.ret # [panic |-> TRUE]
              /\ call.ret.sample \in (0 - SCALE_FACTOR)..SCALE_FACTOR

\* |a| <= |b| * 2^k for two f32
F32AbsLeqScaled(a, b, k) ==
    \/ a.m = 0
    \/ /\ b.m # 0
       /\ \/ a.e < b.e + k
          \/ a.e = b.e + k /\ a.m <= b.m

\* set_frequency leaves the phase, the wavetable and the sample rate alone
SetFrequencyFrame ==
    /\ Unwrap(generator').phase = Unwrap(generator).phase
    /\ Unwrap(generator').wavetable = Unwrap(generator).wavetable
    /\ Unwrap(generator').sample_rate = Unwrap(generator).sample_rate

\* C22 as stated: set_frequency changes only the phase increment: the phase,
\* the wavetable and the sample rate of the generator are unchanged, and
\* get_frequency afterwards returns the new frequency
C22_SetFrequencyChangesOnlyIncrement_Exact ==
    [][call'.op = "set_frequency" =>
          /\ SetFrequencyFrame
          /\ WaveformGenerator_get_frequency(Unwrap(generator')) = call'.arg.f32
      ]_vars

\* C22: set_frequency changes only the phase increment: the phase, the
\* wavetable and the sample rate of the generator are unchanged, and
\* get_frequency afterwards returns the new frequency up to the rounding of
\* f32: a relative error of at most 2^-22
C22_SetFrequencyChangesOnlyIncrement ==
    [][call'.op = "set_frequency" =>
          /\ SetFrequencyFrame
          /\ F32AbsLeqScaled(
                F32Sub(WaveformGenerator_get_frequency(Unwrap(generator')),
                       call'.arg.f32),
                call'.arg.f32, 0 - 22)
      ]_vars

\* a generator in the middle of a period of a sine has just been retuned to
\* 7 Hz and get_frequency would return another value than 7.0
C22_Witness ==
    /\ generator # None
    /\ call.op = "set_frequency"
    /\ call.arg.f32 = F32(7)
    /\ Unwrap(generator).wavetable = TableOf("Sine")
    /\ Unwrap(generator).phase # F32Zero
    /\ Unwrap(generator).phase_inc = F32Div(F32(7), Unwrap(generator).sample_rate)
    /\ WaveformGenerator_get_frequency(Unwrap(generator)) # F32(7)

\* the callback that brings an empty accumulator to exactly downsample_factor
\* samples, all of them equal
FeedsConstantChunk ==
    /\ call'.op = "callback"
    /\ LET acc == accumulated_samples \o call'.arg.block
       IN  /\ Len(acc) = DownsampleFactor
           /\ \A i \in 1..Len(acc) : acc[i] = acc[1]

\* one decimated value was published, into the first cell of a zeroed grid
PublishesOneValue ==
    /\ call'.ret # Unit
    /\ Len(call'.ret.published) = 1
    /\ snapshot' = 1
    /\ GridAt(samples_grid', 0, 0) = call'.ret.published[1]
    /\ DOMAIN samples_grid' \subseteq {<< 0, 0 >>}

\* C23 as stated: feeding exactly downsample_factor samples, all equal to c,
\* into an empty accumulator publishes exactly one decimated value, equal to c
C23_ConstantChunkPublishesConstant_Exact ==
    [][FeedsConstantChunk =>
          /\ PublishesOneValue
          /\ call'.ret.published[1] = call'.arg.block[1]]_vars

\* C23: feeding exactly downsample_factor = k samples, all equal to c, into an
\* empty accumulator publishes exactly one decimated value, equal to c up to
\* the rounding of the f32 sum and division: a relative error of at most
\* k * 2^-23
C23_ConstantChunkPublishesConstant ==
    [][FeedsConstantChunk =>
          /\ PublishesOneValue
          /\ F32AbsLeqScaled(
                F32Sub(call'.ret.published[1], call'.arg.block[1]),
                F32Mul(call'.arg.block[1], F32(DownsampleFactor)), 0 - 23)]_vars

\* the accumulator held all but the last of downsample_factor samples 0.9 and
\* the callback has published their mean, which is not 0.9
C23_Witness ==
    /\ call.op = "callback"
    /\ Len(call.arg.block) = 1
    /\ call.arg.block[1] = F32Div(F32(9), F32(10))
    /\ call.ret # Unit
    /\ Len(call.ret.published) = 1
    /\ call.ret.published[1] # call.arg.block[1]
    /\ call.ret.published[1] =
          Average([i \in 1..DownsampleFactor |-> call.arg.block[1]])
    /\ GridAt(samples_grid, 0, 0) = call.ret.published[1]
    /\ accumulated_samples = << >>

\* C24: each publish writes at most 256 decimated scalars into the 256x16
\* grid, in row-major order: the j-th decimated scalar (j from 0) is stored at
\* row j div 16, column j mod 16
C24_PublishRowMajorAtMost256 ==
    [][(call'.op = "callback" /\ call'.ret # Unit) =>
          /\ snapshot' <= GRID_ROWS
          /\ \A j \in 0..(Len(call'.ret.published) - 1) :
                GridAt(samples_grid', j \div GRID_COLS, j % GRID_COLS)
                    = call'.ret.published[j + 1]]_vars

\* the step in which handle_event(event) is called
HandleEventStep(event) ==
    /\ global_time' = global_time
    /\ call' = [op |-> "handle_event", arg |-> event, ret |-> "None"]

\* the flags of the notes other than n are as before, and no other note
\* entered or left the map
OtherFlagsUnchanged(n) ==
    /\ (DOMAIN playing_notes') \ {n} = (DOMAIN playing_notes) \ {n}
    /\ \A m \in (DOMAIN playing_notes) \ {n} : playing_notes'[m] = playing_notes[m]

\* C25: handle_event mutates exactly the state its event names: On(n) and
\* Off(n) change only the playing flag of n; ChangeWaveform(w) changes only
\* the waveform selection; ToggleTremolo changes only the tremolo enabled flag
\* and the LFO cursor; ChangeKey(k) changes only the root note of the scale
\* (the intervals are unchanged); the flags of the other notes and all other
\* shared state are unchanged
C25_HandleEventFrame ==
    [][\A event \in NoteEvents :
          HandleEventStep(event) =>
             CASE event.action \in {"On", "Off"} ->
                     /\ IsPlaying(playing_notes', event.arg) = (event.action = "On")
                     /\ OtherFlagsUnchanged(event.arg)
                     /\ UNCHANGED << oscillators, waveform_type, octave_shift,
                                     tremolo_enabled, tremolo_effect, scale >>
               [] event.action = "ChangeWaveform" ->
                     /\ waveform_type' = event.arg
                     /\ UNCHANGED << playing_notes, oscillators, octave_shift,
                                  tremolo_enabled, tremolo_effect, scale >>
               [] event.action = "ToggleTremolo" ->
                     /\ tremolo_enabled' = ~tremolo_enabled
                     /\ UNCHANGED << playing_notes, oscillators, waveform_type,
                                     octave_shift, scale >>
                     /\ tremolo_effect'.rate = tremolo_effect.rate
                     /\ tremolo_effect'.depth = tremolo_effect.depth
                     /\ tremolo_effect'.tremolo.rate = tremolo_effect.tremolo.rate
                     /\ tremolo_effect'.tremolo.depth = tremolo_effect.tremolo.depth
                     /\ tremolo_effect'.tremolo.samples_per_tremolo_cycle =
                           tremolo_effect.tremolo.samples_per_tremolo_cycle
               [] event.action = "ChangeKey" ->
                     /\ scale'.root_note = event.arg
                     /\ UNCHANGED << playing_notes, oscillators, waveform_type,
                                     octave_shift, tremolo_enabled, tremolo_effect >>
                     /\ scale'.intervals = scale.intervals
               [] OTHER -> TRUE]_vars

\* ChangeKey("G") was handled while a voice sounds, a note is flagged, the
\* waveform is the sine and the tremolo is enabled: only the root note moved
C25_Witness ==
    /\ call.op = "handle_event"
    /\ call.arg = [action |-> "ChangeKey", arg |-> "G"]
    /\ scale = [MainScale EXCEPT !.root_note = "G"]
    /\ Len(oscillators) > 0
    /\ \E n \in DOMAIN playing_notes : playing_notes[n]
    /\ waveform_type = "Sine"
    /\ tremolo_enabled

\* C29: at the end of every audio block, the waveform of every live oscillator
\* equals the global waveform selection, the voices created before the
\* selection last changed included
C29_VoicesFollowWaveformSelection ==
    [][BlockEndStep =>
          \A k \in 1..Len(oscillators') :
             get_waveform(oscillators'[k]) = waveform_type']_vars

\* the second block has ended; a voice started in the first block, under
\* another selection, plays the selected sine from the phase of a generator
\* built in the second block
C29_Witness ==
    /\ audio_pc = "decimate"
    /\ global_time = 2 * BlockLen
    /\ waveform_type = "Sine"
    /\ \E k \in 1..Len(oscillators) :
          /\ oscillators[k].start_time = Some(0)
          /\ oscillators[k].waveform_generator =
                AdvancePhase(
                   WaveformGeneratorNew("Sine",
                      oscillators[k].waveform_generator.frequency), BlockLen)
          /\ oscillators[k].waveform_generator.phase # 0

\* the indices [i * frames, (i + 1) * frames) of the buffer before the step
ChannelRange(i) ==
    (i * num_frames(Unwrap(audio_buffer)))
        ..((i + 1) * num_frames(Unwrap(audio_buffer)) - 1)

\* C27: for a buffer with num_channels >= 1 and frames = len div num_channels,
\* channel(i) and channel_mut(i) for every i < num_channels are exactly the
\* index range [i*frames, (i+1)*frames) of the backing array: the slice holds
\* the items of that range, a write through channel_mut changes an item of
\* that range and nothing else, the ranges of distinct channels are disjoint
\* and every range lies inside the backing array
C27_ChannelIsItsIndexRange ==
    [][(/\ call'.op \in {"channel", "channel_mut"}
        /\ call'.arg.channel_index < Unwrap(audio_buffer).num_channels) =>
          LET buf == Unwrap(audio_buffer)
              i == call'.arg.channel_index
              slice == call'.ret
          IN  /\ slice # [panic |-> TRUE]
              /\ SliceIndices(slice) = ChannelRange(i)
              /\ \A k \in ChannelRange(i) :
                    slice.items[k - slice.start + 1] = buf.data[k + 1]
              /\ ChannelRange(i) \subseteq 0..(Len(buf.data) - 1)
              /\ \A j \in 0..(buf.num_channels - 1) :
                    j # i => ChannelRange(j) \cap SliceIndices(slice) = {}
              /\ Unwrap(audio_buffer').num_channels = buf.num_channels
              /\ Len(Unwrap(audio_buffer').data) = Len(buf.data)
              /\ \A k \in 0..(Len(buf.data) - 1) :
                    Unwrap(audio_buffer').data[k + 1] # buf.data[k + 1] =>
                       /\ call'.op = "channel_mut"
                       /\ k \in ChannelRange(i)
                       /\ k = slice.start + call'.arg.offset]_vars

\* a sample was written through channel_mut(1) of a buffer of 3 channels of 2
\* frames: the fourth item of the backing array and no other
C27_Witness ==
    /\ call.op = "channel_mut"
    /\ call.arg = [channel_index |-> 1, offset |-> 1, value |-> F32(1)]
    /\ call.ret.start = 2
    /\ Len(call.ret.items) = 2
    /\ Unwrap(audio_buffer).num_channels = 3
    /\ Unwrap(audio_buffer).data =
          << F32Zero, F32Zero, F32Zero, F32(1), F32Zero, F32Zero >>

\* the ticks of the attack, decay and release stages of an envelope together
Window(env) == env.attack_time + env.decay_time + env.release_time

\* C26: release_note(t) clears start_time only when the whole attack + decay +
\* release window of the voice has elapsed (t - start_time >= attack + decay +
\* release); at any earlier time, t equal to start_time included, it leaves
\* start_time unchanged; and it never removes the voice from the pool: the
\* voice and the pool are as before in everything else
C26_ReleaseClearsOnlyAfterWindow ==
    [][(call'.op = "release_note" /\ Unwrap(voice).start_time # None) =>
          LET osc == Unwrap(voice)
              elapsed == call'.arg.time - Unwrap(osc.start_time)
          IN  /\ voice' # None
              /\ oscillators' = oscillators
              /\ Unwrap(voice') = [osc EXCEPT !.start_time = Unwrap(voice').start_time]
              /\ elapsed < Window(osc.envelope) =>
                    Unwrap(voice').start_time = osc.start_time
              /\ Unwrap(voice').start_time \in {None, osc.start_time}]_vars

\* samples_per_tremolo_cycle of the LFO of the voice
VoiceSamplesPerCycle ==
    TremoloNew(get_rate(tremolo_effect), get_depth(tremolo_effect),
               F32AsUsize(Unwrap(voice).waveform_generator.sample_rate))
        .samples_per_tremolo_cycle

\* C28: with the tremolo enabled, generate_wave applies an LFO that progresses
\* over the samples it generates: the LFO position carries over from one
\* sample to the next and from one block to the next, and the table index
\* used for the modulation advances by one after each samples_per_cycle
\* generated samples
C28_LfoProgressesOverSamples ==
    [][(/\ call'.op = "generate_wave"
        /\ tremolo_enabled
        /\ call'.ret # [panic |-> TRUE]) =>
          LET lfo == call'.ret.lfo
          IN  /\ Len(lfo) = call'.arg.num_samples
              /\ \A j \in 1..(Len(lfo) - 1) : lfo[j + 1].before = lfo[j].after
              /\ \A j \in 1..(Len(lfo) - VoiceSamplesPerCycle) :
                    lfo[j + VoiceSamplesPerCycle].before.table_index =
                       (lfo[j].before.table_index + 1) % TREMOLO_TABLE_SIZE
              /\ call.op = "generate_wave" =>
                    lfo[1].before = call.ret.lfo[Len(call.ret.lfo)].after]_vars

\* what Oscillator::set_waveform(w) leaves and what it resets
SetWaveformFrame ==
    LET osc == Unwrap(voice)
        after == Unwrap(voice')
    IN  /\ after.waveform_generator.wavetable = TableOf(call'.arg.waveform)
        /\ after.waveform_generator.phase = F32Zero
        /\ after.waveform_generator.sample_rate = osc.waveform_generator.sample_rate
        /\ after.note = osc.note
        /\ after.envelope = osc.envelope
        /\ after.start_time = osc.start_time
        /\ Oscillator_get_waveform(after) = call'.arg.waveform

\* C30: Oscillator::set_waveform(w) replaces the generator with one for w at
\* the same frequency and sample rate with the phase reset to 0; the note key,
\* the envelope and start_time of the voice are unchanged, and get_waveform()
\* afterwards returns w, for each of the 5 waveform kinds
C30_SetWaveformRebuildsGenerator ==
    [][call'.op = "set_waveform" =>
          /\ SetWaveformFrame
          /\ Oscillator_get_frequency(Unwrap(voice')) =
                Oscillator_get_frequency(Unwrap(voice))]_vars

\* a started voice that has generated samples was switched to the triangle
C30_Witness ==
    /\ call.op = "set_waveform"
    /\ call.arg.waveform = "Triangle"
    /\ call.n >= 1
    /\ Unwrap(voice).start_time # None
    /\ Unwrap(voice).waveform_generator.phase = F32Zero
    /\ Oscillator_get_waveform(Unwrap(voice)) = "Triangle"

\* the accumulator after accumulated_samples.extend(data) of the callback
Extended == accumulated_samples \o call'.arg.block

\* C31: the decimation step publishes a snapshot in a callback exactly when
\* the accumulated sample count has reached downsample_factor, and then
\* empties the accumulator; otherwise the snapshot is unchanged and the
\* samples are retained; hence after every audio callback the accumulator
\* holds fewer than downsample_factor samples
C31_PublishExactlyWhenFactorReached ==
    [][call'.op = "callback" =>
          /\ (call'.ret # Unit) <=> (Len(Extended) >= DownsampleFactor)
          /\ call'.ret # Unit =>
                /\ accumulated_samples' = << >>
                /\ samples_grid' = StoreGrid(call'.ret.published)
          /\ call'.ret = Unit =>
                /\ accumulated_samples' = Extended
                /\ UNCHANGED << samples_grid, snapshot >>
          /\ Len(accumulated_samples') < DownsampleFactor]_vars

\* a callback after a publish has retained its samples, one fewer than
\* downsample_factor, and the published snapshot is still there
C31_Witness ==
    /\ call.op = "callback"
    /\ call.ret = Unit
    /\ Len(accumulated_samples) = DownsampleFactor - 1
    /\ snapshot >= 1
    /\ DOMAIN samples_grid # {}

\* C32 as stated: every scalar published by the decimation is the mean of a
\* chunk of exactly downsample_factor consecutive accumulated samples
C32_PublishedIsMeanOfFullChunk ==
    [][(call'.op = "callback" /\ call'.ret # Unit) =>
          \A c \in 1..Len(call'.ret.published) :
             \E start \in 1..(Len(Extended) - DownsampleFactor + 1) :
                call'.ret.published[c] =
                   Average(SubSeq(Extended, start, start + DownsampleFactor - 1))]_vars

\* the scalar j (from 0) of a publish belongs to the cell in row j div 16,
\* column j mod 16
ScalarOf(cell) == cell[1] * GRID_COLS + cell[2]

\* C33: each publish overwrites the whole previous snapshot: after a publish,
\* every grid cell that did not receive a decimated scalar from this publish
\* is 0, so no value of an earlier snapshot survives
C33_PublishOverwritesSnapshot ==
    [][(call'.op = "callback" /\ call'.ret # Unit) =>
          \A i \in 0..(GRID_ROWS - 1), j \in 0..(GRID_COLS - 1) :
             \/ GridAt(samples_grid', i, j) = F32Zero
             \/ /\ ScalarOf(<< i, j >>) < Len(call'.ret.published)
                /\ GridAt(samples_grid', i, j) =
                      call'.ret.published[ScalarOf(<< i, j >>) + 1]]_vars

\* a publish of one scalar -0.3 came after some callbacks: the grid holds that
\* scalar in its first cell and 0 in every other cell
C33_Witness ==
    /\ call.op = "callback"
    /\ call.ret # Unit
    /\ call.ret.published = << F32Div(F32(0 - 3), F32(10)) >>
    /\ Len(call.arg.block) = 1
    /\ DOMAIN samples_grid = {<< 0, 0 >>}
    /\ GridAt(samples_grid, 0, 1) = F32Zero

\* C36: after any number of Tremolo::process calls, table_index is in
\* [0, TABLE_SIZE) and, when samples_per_tremolo_cycle >= 1, sample_counter is
\* below samples_per_tremolo_cycle; the table index advances by exactly one
\* (mod TABLE_SIZE) on every samples_per_tremolo_cycle-th call and is
\* unchanged on every other call
C36_LfoCursorInRangeAndPaced ==
    [][call'.op = "process" =>
          LET before == tremolo_effect.tremolo
              after == tremolo_effect'.tremolo
              cycle == before.samples_per_tremolo_cycle
          IN  /\ after.table_index \in 0..(TREMOLO_TABLE_SIZE - 1)
              /\ after.samples_per_tremolo_cycle = cycle
              /\ cycle >= 1 =>
                    /\ after.sample_counter < cycle
                    /\ after.table_index =
                          IF call'.n % cycle = 0
                          THEN (before.table_index + 1) % TREMOLO_TABLE_SIZE
                          ELSE before.table_index]_vars

\* an LFO with a cycle of 2 samples has gone through the whole table: the
\* call 2 * TABLE_SIZE has brought the table index from the last entry to 0
C36_Witness ==
    /\ call.op = "process"
    /\ tremolo_effect.tremolo.samples_per_tremolo_cycle = 2
    /\ call.n = 2 * TREMOLO_TABLE_SIZE
    /\ tremolo_effect.tremolo.table_index = 0
    /\ tremolo_effect.tremolo.sample_counter = 0

\* positions in the pool after a block of the voices the block created: the
\* voices after the retained ones
CreatedInBlock ==
    (Len(Retain(oscillators, playing_notes)) + 1)..Len(oscillators')

\* C35: a voice created in an audio block gets start_time equal to the start
\* time of that block, and generate_wave for the same block is called with
\* that same block-start time, so that the elapsed time of the envelope at the
\* first sample the voice generates is 0
C35_NewVoiceStartsAtElapsedZero ==
    [][SynthStep =>
          \A k \in CreatedInBlock :
             /\ oscillators'[k].start_time = Some(global_time)
             /\ render_time' = Some(global_time)
             /\ Unwrap(render_time') - Unwrap(oscillators'[k].start_time) = 0]_vars

\* C34: an oscillator whose start_time is None (never started, or cleared by
\* release_note) is not sounding: generate_wave returns all-zero samples for it
C34_UnstartedVoiceIsSilent ==
    [][(/\ call'.op = "generate_wave"
        /\ Unwrap(voice).start_time = None
        /\ call'.ret # [panic |-> TRUE]) =>
          /\ Len(call'.ret.output) = call'.arg.num_samples
          /\ \A i \in 1..Len(call'.ret.output) : call'.ret.output[i] = 0]_vars

\* a press directly followed by the release of the same key
Keystroke(ka) ==
    /\ call.op = "Pressed"
    /\ call.arg = ka
    /\ call'.op = "Released"
    /\ call'.arg = ka

\* C38: one press followed by one release of the octave-up key raises the
\* octave shift by exactly one step when it was below +2 before the press, and
\* one press and release of the octave-down key lowers it by exactly one step
\* when it was above -2.
C38_OctaveKeystrokeIsOneStep ==
    [][/\ (Keystroke([action |-> "ChangeOctave", arg |-> "up"])
             /\ call.ret.octave_shift < OCTAVE_MAX)
          => octave_shift' = call.ret.octave_shift + 1
       /\ (Keystroke([action |-> "ChangeOctave", arg |-> "down"])
             /\ call.ret.octave_shift > -OCTAVE_MAX)
          => octave_shift' = call.ret.octave_shift - 1]_vars

\* C39: one press followed by one release of the tremolo toggle key leaves
\* the tremolo enabled flag flipped relative to its value before the press.
C39_TremoloKeystrokeFlipsOnce ==
    [][Keystroke([action |-> "ToggleTremolo", arg |-> "None"])
          => tremolo_enabled' = ~ call.ret.tremolo_enabled]_vars

====
